---- MODULE Spec2Model ----
(***************************************************************************)
(* Audio-environment lifecycle of the realtime transcription tool:         *)
(*   transcriber/audio_setup.py  AudioEnvironmentManager (prepare/cleanup) *)
(*   transcriber/cli.py          run_easy_start, run_pipeline and the      *)
(*                               Linux pactl helpers                       *)
(* Python's Optional[T] is modelled as a sequence of length 0 (None) or 1. *)
(***************************************************************************)
EXTENDS Integers, Sequences, FiniteSets, TLC

VARIABLES
    \* ---- process-wide / operating-system state
    defaultSink,        \* audio server default sink   (Optional name)
    defaultSource,      \* audio server default source (Optional name)
    environ,            \* os.environ restricted to the two hint keys
    \* ---- AudioEnvironmentManager
    cfg,                \* self._config
    plat,               \* self._platform
    cleanup_actions,    \* self._cleanup_actions
    mpc,                \* control point inside prepare()/cleanup()
    \* ---- the current (or last) prepare() call
    outcome,            \* how it ended: "ok" or the kind of error raised
    devices,            \* enumeration made by _ensure_device_presence
    detDevices,         \* enumeration made by _detect_loopback_candidate
    capture_defaults,   \* local of _prepare_linux_loopback
    stackAtScript,      \* rollback stack when the helper script was invoked
    scriptExit,         \* exit status of the helper script (Optional)
    defaultsAtPrepare,  \* <<sink, source>> of the audio server when it began
    pactlFound,         \* what shutil.which("pactl") gave: "none" (not asked),
                        \* "yes" or "no"
    toolFailed,         \* a pactl invocation failed or raised since it began
    \* ---- the current (or last) cleanup() call
    stackAtCleanup,     \* rollback stack when it began
    defaultsAtCleanup,  \* default sink and source when it began
    executed,           \* rollback actions it executed, in order
    failures,           \* how many of them raised
    cleanupResult,      \* "returned" or "raised"
    \* ---- the caller's history
    pactlCalls,         \* pactl invocations made by the current (last) call
    lastCall,           \* the current (last) call: "prepare" or "cleanup"
    prevCall,           \* the call before it
    \* ---- the audio server's module table
    sysModules,         \* module id -> "none" | "null" (module-null-sink) |
                        \* "loop" (module-loopback)
    \* ---- run_easy_start
    interactive,        \* its parameter
    epc,                \* control point
    esResult,           \* what it returned: Some(TRUE/FALSE), or "raised"
    todo,               \* the calls left in the block being executed
    retval,             \* what that block returns when it is through
    defaults_before_script,
    modules_before_script,
    modules_to_unload,
    headphone_env_previous,
    loopback_flag_previous,
    environAtCall,      \* os.environ when run_easy_start was called
    modulesAtCall,      \* the module table when run_easy_start was called
    capturedAtStart,    \* what _capture_linux_defaults returned at line 210
    snapBefore,         \* what _snapshot_linux_modules returned at line 211
    modules_after,      \* the snapshot taken after the helper script
    scriptAnswer,       \* answer to the helper-script prompt, "none" if not asked
    startAnswer,        \* answer to the start prompt, "none" if not asked
    steps,              \* rollback helpers called, in order
    unloaded,           \* module ids passed to `pactl unload-module`, in order
    \* ---- run_pipeline
    rpc,                \* control point
    taskState,          \* the task running pipeline.run()
    stop_event,         \* asyncio.Event set by the signal handlers
    cancelRequested,    \* run_task.cancel() has been called
    signalled,          \* a signal has been delivered to an installed handler
    \* ---- diagnostics and detection applied to one enumeration
    diagQuery,          \* what sd.query_devices() gives
    report,             \* what collect_audio_diagnostics returned
    detected,           \* what _detect_loopback_candidate returned
    \* ---- the command-line boundaries
    preflight,          \* the checks run_easy_start has run, each with its result
    cliExit,            \* the boundary that ended and its process exit status
    physCall            \* what a lone _ensure_linux_physical_defaults call found

osVars      == <<defaultSink, defaultSource, environ>>
objVars     == <<cfg, plat>>
prepareVars == <<outcome, devices, detDevices, capture_defaults, stackAtScript,
                 scriptExit, defaultsAtPrepare, pactlFound>>
cleanupVars == <<stackAtCleanup, defaultsAtCleanup, executed, failures, cleanupResult>>
callVars    == <<lastCall, prevCall>>
mgrVars     == <<objVars, cleanup_actions, mpc, prepareVars, toolFailed,
                 cleanupVars, pactlCalls, callVars>>
easyLocals  == <<defaults_before_script, modules_before_script, modules_to_unload,
                 headphone_env_previous, loopback_flag_previous>>
easyGhosts  == <<environAtCall, modulesAtCall, capturedAtStart, snapBefore,
                 modules_after, scriptAnswer, startAnswer>>
easyLog     == <<steps, unloaded>>
pipeVars    == <<rpc, taskState, stop_event, cancelRequested, signalled>>
easyVars    == <<sysModules, interactive, epc, esResult, todo, retval, easyLocals,
                 easyGhosts, easyLog, pipeVars>>
diagVars    == <<diagQuery, report, detected>>
cliVars     == <<preflight, cliExit, physCall>>
vars        == <<osVars, mgrVars, easyVars, diagVars, cliVars>>

----------------------------------------------------------------------------
\* Bounds of the model
MaxDevices  == 2    \* longest device enumeration
MaxStack    == 3    \* deepest rollback stack drawn for cleanup()
MaxModules  == 3    \* module ids of the audio server
MaxPreloaded == 1   \* modules loaded before run_easy_start is called

----------------------------------------------------------------------------
\* Optional values
None      == <<>>
Some(x)   == <<x>>
IsSome(o) == o # <<>>
Get(o)    == o[1]

RECURSIVE Reverse(_)
Reverse(s) == IF s = <<>> THEN <<>> ELSE Reverse(Tail(s)) \o <<Head(s)>>

----------------------------------------------------------------------------
\* Strings: str.lower() and the substring test `kw in name`
UpperChars == {"A","B","C","D","E","F","G","H","I","J","K","L","M",
               "N","O","P","Q","R","S","T","U","V","W","X","Y","Z"}

LowerChar(c) ==
    CASE c = "A" -> "a" [] c = "B" -> "b" [] c = "C" -> "c" [] c = "D" -> "d"
      [] c = "E" -> "e" [] c = "F" -> "f" [] c = "G" -> "g" [] c = "H" -> "h"
      [] c = "I" -> "i" [] c = "J" -> "j" [] c = "K" -> "k" [] c = "L" -> "l"
      [] c = "M" -> "m" [] c = "N" -> "n" [] c = "O" -> "o" [] c = "P" -> "p"
      [] c = "Q" -> "q" [] c = "R" -> "r" [] c = "S" -> "s" [] c = "T" -> "t"
      [] c = "U" -> "u" [] c = "V" -> "v" [] c = "W" -> "w" [] c = "X" -> "x"
      [] c = "Y" -> "y" [] c = "Z" -> "z" [] OTHER -> c

RECURSIVE LowerFrom(_, _)
LowerFrom(s, i) ==
    IF i > Len(s) THEN "" ELSE LowerChar(SubSeq(s, i, i)) \o LowerFrom(s, i + 1)

Lower(s) == LowerFrom(s, 1)

Contains(kw, name) ==
    \E i \in 1..(Len(name) - Len(kw) + 1) : SubSeq(name, i, i + Len(kw) - 1) = kw

----------------------------------------------------------------------------
\* Configuration and platform
Modes     == {"AUTO", "MICROPHONE", "LOOPBACK", "API"}
Platforms == {"linux", "windows", "darwin", "freebsd"}

\* the platform set without "darwin"
resolve_capture_mode_no_darwin(config, system) ==
    IF config.mode = "AUTO"
    THEN IF system \in {"linux", "windows"} THEN "LOOPBACK" ELSE "MICROPHONE"
    ELSE config.mode

resolve_capture_mode(config, system) ==
    IF config.mode = "AUTO"
    THEN IF system \in {"linux", "windows", "darwin"} THEN "LOOPBACK" ELSE "MICROPHONE"
    ELSE config.mode

\* Devices as sd.query_devices() reports them
Device(n, i) == [name |-> n, max_input_channels |-> i]

DeviceKinds ==
    { Device("Built-in Audio Analog Stereo", 1),
      Device("Loopback Monitor", 2),
      Device("HDMI Output", 0) }

\* Devices for the classification rules: the two generic PipeWire names with
\* two channels and with one, a monitor, names that equal and that contain a
\* sink-name hint, a monitor without input channels, a Windows and a macOS
\* loopback device, a plain microphone
DiagDeviceKinds ==
    { Device("pipewire", 2),
      Device("pipewire", 1),
      Device("default", 2),
      Device("default", 1),
      Device("Monitor of Built-in Audio", 2),
      Device("built-in", 1),
      Device("Built-in Audio Analog Stereo", 1),
      Device("Loopback Monitor", 0),
      Device("Stereo Mix", 2),
      Device("BlackHole 2ch", 2),
      Device("USB Microphone", 1) }

AllDeviceKinds == DeviceKinds \cup DiagDeviceKinds

RECURSIVE SeqsUpTo(_, _)
SeqsUpTo(S, n) ==
    IF n = 0 THEN {<<>>}
    ELSE LET shorter == SeqsUpTo(S, n - 1)
         IN  shorter \cup {Append(s, x) : s \in shorter, x \in S}

DeviceLists == SeqsUpTo(DeviceKinds, MaxDevices)

\* What one call of sd.query_devices() gave: a list, or an exception
NotQueried   == [st |-> "none",   devs |-> <<>>]
QueryFailed  == [st |-> "raised", devs |-> <<>>]
Queried(d)   == [st |-> "ok",     devs |-> d]
\* sd.query_devices(): the devices present at that moment, or an exception
QueryResults == {Queried(d) : d \in DeviceLists} \cup {QueryFailed}

IndexValues == (-1)..MaxDevices
SinkHints   == {None, Some("Built-in")}
DiagSinkHints == SinkHints \cup {Some("default"), Some("")}

Configs ==
    [ device_index        : {None} \cup {Some(i) : i \in IndexValues},
      mode                : Modes,
      auto_setup_loopback : BOOLEAN,
      linux_loopback_sink : SinkHints ]

----------------------------------------------------------------------------
\* AudioEnvironmentManager._detect_loopback_candidate
LinuxKeywords   == {"monitor", "loopback"}
WindowsKeywords == {"loopback", "stereo mix", "cable output", "cable input", "virtual"}
DarwinKeywords  == {"blackhole", "loopback", "soundflower", "aggregate", "multi-output"}

SinkHint(config, system) ==
    IF system = "linux" /\ IsSome(config.linux_loopback_sink)
                        /\ Get(config.linux_loopback_sink) # ""
    THEN Some(Lower(Get(config.linux_loopback_sink)))
    ELSE None

\* the loop body without `if inputs <= 0: continue`
IsCandidateNoInputTest(device, keywords, config, system) ==
    LET name == Lower(device.name)
        hint == SinkHint(config, system)
    IN  \/ \E kw \in keywords : Contains(Lower(kw), name)
        \/ /\ system = "linux"
           /\ \/ IsSome(hint) /\ Contains(Get(hint), name)
              \/ name \in {"pipewire", "default"} /\ device.max_input_channels >= 2
        \/ system = "windows" /\ Contains("loopback", name) /\ Contains("wasapi", name)
        \/ system = "darwin" /\ Contains("blackhole", name)

\* the loop body without `and inputs >= 2`
IsCandidateAnyChannels(device, keywords, config, system) ==
    LET name == Lower(device.name)
        hint == SinkHint(config, system)
    IN  /\ device.max_input_channels > 0
        /\ \/ \E kw \in keywords : Contains(Lower(kw), name)
           \/ /\ system = "linux"
              /\ \/ IsSome(hint) /\ Contains(Get(hint), name)
                 \/ name \in {"pipewire", "default"}
           \/ system = "windows" /\ Contains("loopback", name) /\ Contains("wasapi", name)
           \/ system = "darwin" /\ Contains("blackhole", name)

IsCandidate(device, keywords, config, system) ==
    LET inputs == device.max_input_channels
        name   == Lower(device.name)
        hint   == SinkHint(config, system)
        byKeyword == \E kw \in keywords : Contains(Lower(kw), name)
    IN  /\ inputs > 0
        /\ \/ byKeyword
           \/ /\ system = "linux"
              /\ \/ IsSome(hint) /\ Contains(Get(hint), name)
                 \/ name \in {"pipewire", "default"} /\ inputs >= 2
           \/ system = "windows" /\ Contains("loopback", name) /\ Contains("wasapi", name)
           \/ system = "darwin" /\ Contains("blackhole", name)

\* The rule table applied to the devices and hints of the model, once
KeywordSets == {LinuxKeywords, WindowsKeywords, DarwinKeywords}
CandidateTable ==
    [d \in AllDeviceKinds, kws \in KeywordSets, h \in DiagSinkHints, system \in Platforms |->
        IsCandidate(d, kws, [linux_loopback_sink |-> h], system)]

_detect_loopback_candidate(devs, keywords, config, system) ==
    \E i \in 1..Len(devs) :
        CandidateTable[devs[i], keywords, config.linux_loopback_sink, system]

----------------------------------------------------------------------------
\* AudioEnvironmentManager._ensure_device_presence
PyIndex(seq, i) == IF i < 0 THEN seq[Len(seq) + i + 1] ELSE seq[i + 1]

\* the range test without its `index < 0` half
IndexOutOfRangeNoLower(index, n) == index >= n

IndexOutOfRange(index, n) == index < 0 \/ index >= n

_ensure_device_presence(q, config) ==
    IF q.st = "raised" THEN "EnumerationFailure"
    ELSE IF q.devs = <<>> THEN "DeviceUnavailable"
    ELSE IF IsSome(config.device_index)
         THEN LET index == Get(config.device_index)
              IN  IF IndexOutOfRange(index, Len(q.devs)) THEN "DeviceUnavailable"
                  ELSE IF PyIndex(q.devs, index).max_input_channels <= 0
                       THEN "DeviceUnavailable"
                       ELSE "ok"
         ELSE IF \E i \in 1..Len(q.devs) : q.devs[i].max_input_channels > 0
              THEN "ok"
              ELSE "DeviceUnavailable"

----------------------------------------------------------------------------
\* The audio server (pactl) as the program sees it
PhysicalSink   == "alsa_output.pci"
PhysicalSource == "alsa_input.pci"
VirtualSink    == "codex_transcribe"
VirtualSource  == "codex_transcribe.monitor"

InitialSinks   == {None, Some(PhysicalSink)}
InitialSources == {None, Some(PhysicalSource)}

\* Defaults the helper script may leave behind: each one kept or moved to the
\* virtual device it created
ScriptSinks(cur)   == {cur, Some(VirtualSink)}
ScriptSources(cur) == {cur, Some(VirtualSource)}


\* `pactl info` parsed by _get_linux_defaults: None when the call raised or
\* when neither default is reported
_get_linux_defaults(infoOk, sink, source) ==
    IF ~infoOk THEN None
    ELSE IF IsSome(sink) \/ IsSome(source) THEN Some(<<sink, source>>)
    ELSE None

\* The closure built by _register_linux_defaults_restore
RestoreAction(defaults) ==
    [kind |-> "restore", sink_name |-> defaults[1], source_name |-> defaults[2]]

IsRestore(a)      == a.kind = "restore"
HasRestore(stack) == \E i \in 1..Len(stack) : IsRestore(stack[i])

\* One `subprocess.run(["pactl", "set-default-...", name], check=False)`
PactlResults == {"ok", "nonzero", "raised"}

\* restore(): the sink call, then the source call; an exception raised by the
\* first call skips the second.  rs, rc: what the two pactl calls do.
RestoreSinkCalled(a)       == IsSome(a.sink_name)
RestoreSourceCalled(a, rs) == IsSome(a.source_name) /\ ~(RestoreSinkCalled(a) /\ rs = "raised")

RestoreRaised(a, rs, rc) ==
    \/ RestoreSinkCalled(a) /\ rs = "raised"
    \/ RestoreSourceCalled(a, rs) /\ rc = "raised"

RestoreToolFailed(a, rs, rc) ==
    \/ RestoreSinkCalled(a) /\ rs # "ok"
    \/ RestoreSourceCalled(a, rs) /\ rc # "ok"

RestoreCalls(a, rs) ==
    (IF RestoreSinkCalled(a) THEN 1 ELSE 0) + (IF RestoreSourceCalled(a, rs) THEN 1 ELSE 0)

\* restore() without its set-default-sink call
RestoreSinkSkipped(a, rs, cur) == cur

RestoreSinkAfter(a, rs, cur) ==
    IF RestoreSinkCalled(a) /\ rs = "ok" THEN a.sink_name ELSE cur

RestoreSourceAfter(a, rs, rc, cur) ==
    IF RestoreSourceCalled(a, rs) /\ rc = "ok" THEN a.source_name ELSE cur

----------------------------------------------------------------------------
\* AudioEnvironmentManager.cleanup

\* list.pop(0): the first element
PopIndexFirst(stack) == 1

\* list.pop(): the last element
PopIndex(stack) == Len(stack)

RemoveAt(stack, i) == SubSeq(stack, 1, i - 1) \o SubSeq(stack, i + 1, Len(stack))

\* action() called without try/except: the exception leaves the loop
PropagatesUncaught(raised) == raised

\* `except Exception` around action(): nothing leaves the loop
Propagates(raised) == FALSE

\* The locals of a prepare() call that has returned
PrepareLocalsGone ==
    /\ outcome' = "none"
    /\ devices' = NotQueried
    /\ detDevices' = NotQueried
    /\ capture_defaults' = None
    /\ stackAtScript' = None
    /\ scriptExit' = None
    /\ pactlFound' = "none"
    /\ UNCHANGED defaultsAtPrepare

CleanupCall ==
    /\ mpc = "idle"
    /\ mpc' = "cleanup"
    /\ stackAtCleanup' = cleanup_actions
    /\ defaultsAtCleanup' = <<defaultSink, defaultSource>>
    /\ executed' = <<>>
    /\ failures' = 0
    /\ cleanupResult' = "running"
    /\ pactlCalls' = 0
    /\ lastCall' = "cleanup"
    /\ prevCall' = lastCall
    /\ PrepareLocalsGone
    /\ UNCHANGED <<osVars, objVars, cleanup_actions, toolFailed>>

CleanupStep ==
    /\ mpc = "cleanup"
    /\ cleanup_actions # <<>>
    /\ LET i      == PopIndex(cleanup_actions)
           action == cleanup_actions[i]
       IN  \E rs \in PactlResults, rc \in PactlResults :
             /\ cleanup_actions' = RemoveAt(cleanup_actions, i)
             /\ executed' = Append(executed, action)
             /\ failures' = failures + (IF RestoreRaised(action, rs, rc) THEN 1 ELSE 0)
             /\ defaultSink' = RestoreSinkAfter(action, rs, defaultSink)
             /\ defaultSource' = RestoreSourceAfter(action, rs, rc, defaultSource)
             /\ toolFailed' = (toolFailed \/ RestoreToolFailed(action, rs, rc))
             /\ pactlCalls' = pactlCalls + RestoreCalls(action, rs)
             /\ IF Propagates(RestoreRaised(action, rs, rc))
                THEN mpc' = "idle" /\ cleanupResult' = "raised"
                ELSE UNCHANGED <<mpc, cleanupResult>>
    /\ UNCHANGED <<environ, objVars, prepareVars, stackAtCleanup, defaultsAtCleanup,
                   callVars>>

CleanupReturn ==
    /\ mpc = "cleanup"
    /\ cleanup_actions = <<>>
    /\ mpc' = "idle"
    /\ cleanupResult' = "returned"
    /\ UNCHANGED <<osVars, objVars, cleanup_actions, prepareVars, toolFailed,
                   stackAtCleanup, defaultsAtCleanup, executed, failures, pactlCalls,
                   callVars>>

----------------------------------------------------------------------------
\* AudioEnvironmentManager.prepare

LoopbackFlag == "AUDIO_LOOPBACK_ALREADY_SET"
HeadphoneKey == "HEADPHONE_SINK"
HintKeys     == {LoopbackFlag, HeadphoneKey}

ExitCodes == {0, 1}

\* prepare() is called: the mode is resolved and the rollback stack cleared
\* prepare() without its `self._cleanup_actions.clear()`
StackAtPrepareKept(stack) == stack

\* prepare(): `self._cleanup_actions.clear()`
StackAtPrepare(stack) == <<>>

PrepareCall ==
    /\ mpc = "idle"
    /\ mpc' = "ensure"
    /\ outcome' = "running"
    /\ cleanup_actions' = StackAtPrepare(cleanup_actions)
    /\ devices' = NotQueried
    /\ detDevices' = NotQueried
    /\ capture_defaults' = None
    /\ stackAtScript' = None
    /\ scriptExit' = None
    /\ defaultsAtPrepare' = <<defaultSink, defaultSource>>
    /\ pactlFound' = "none"
    /\ toolFailed' = FALSE
    /\ pactlCalls' = 0
    /\ lastCall' = "prepare"
    /\ prevCall' = lastCall
    /\ UNCHANGED <<osVars, objVars, cleanupVars>>

\* prepare() returning only for MICROPHONE
EndsAfterValidationMicOnly(mode) == mode = "MICROPHONE"

\* prepare(): `if mode is MICROPHONE: return` and `if mode is API: return`
EndsAfterValidation(mode) == mode \in {"MICROPHONE", "API"}

\* prepare(): _ensure_device_presence, then the dispatch on the mode and, for
\* LOOPBACK, on the platform (_prepare_loopback)
PrepareEnsure ==
    /\ mpc = "ensure"
    /\ \E q \in QueryResults :
         LET mode     == resolve_capture_mode(cfg, plat)
             presence == _ensure_device_presence(q, cfg)
         IN  /\ devices' = q
             /\ IF presence # "ok"
                THEN outcome' = presence /\ mpc' = "idle"
                ELSE IF EndsAfterValidation(mode)
                THEN outcome' = "ok" /\ mpc' = "idle"
                ELSE IF plat \in {"linux", "windows", "darwin"}
                THEN outcome' = "running" /\ mpc' = plat
                ELSE outcome' = "ok" /\ mpc' = "idle"
    /\ UNCHANGED <<osVars, objVars, cleanup_actions, detDevices, capture_defaults,
                   stackAtScript, scriptExit, defaultsAtPrepare, pactlFound, toolFailed,
                   cleanupVars, pactlCalls, callVars>>

\* the result of _detect_loopback_candidate not looked at
DetectOutcomeUnchecked(q, keywords) ==
    IF q.st = "raised" THEN "EnumerationFailure" ELSE "ok"

\* How prepare() ends after one more enumeration and candidate detection
DetectOutcome(q, keywords) ==
    IF q.st = "raised" THEN "EnumerationFailure"
    ELSE IF ~_detect_loopback_candidate(q.devs, keywords, cfg, plat)
         THEN "NoLoopbackDetected"
         ELSE "ok"

\* _prepare_loopback has been entered: _ensure_device_presence has returned
EnsureLocalsGone == devices' = NotQueried

\* _prepare_linux_loopback: shutil.which("pactl") finds nothing
LinuxNoPactl ==
    /\ mpc = "linux"
    /\ pactlFound' = "no"
    /\ outcome' = "ok"
    /\ mpc' = "idle"
    /\ EnsureLocalsGone
    /\ UNCHANGED <<osVars, objVars, cleanup_actions, detDevices, capture_defaults,
                   stackAtScript, scriptExit, defaultsAtPrepare, toolFailed,
                   cleanupVars, pactlCalls, callVars>>

\* os.environ.get("AUDIO_LOOPBACK_ALREADY_SET") tested without its result
\* being used
AlreadySetIgnored(env) == FALSE

\* os.environ.get("AUDIO_LOOPBACK_ALREADY_SET") == "1"
AlreadySet(env) == env[LoopbackFlag] = Some("1")

\* _prepare_linux_loopback: the launcher's flag is set, verify only
LinuxAlreadySet ==
    /\ mpc = "linux"
    /\ pactlFound' = "yes"
    /\ AlreadySet(environ)
    /\ IF cfg.device_index = None
       THEN \E q \in QueryResults :
              /\ detDevices' = q
              /\ outcome' = DetectOutcome(q, LinuxKeywords)
       ELSE /\ outcome' = "ok"
            /\ UNCHANGED detDevices
    /\ mpc' = "idle"
    /\ EnsureLocalsGone
    /\ UNCHANGED <<osVars, objVars, cleanup_actions, capture_defaults,
                   stackAtScript, scriptExit, defaultsAtPrepare, toolFailed,
                   cleanupVars, pactlCalls, callVars>>

\* the restore closure built but never appended
RegisterDropped(stack, defaults) == stack

\* _register_linux_defaults_restore
Register(stack, defaults) == Append(stack, RestoreAction(defaults))

\* _prepare_linux_loopback: auto-setup, snapshot the defaults and register
\* their restore
LinuxCapture ==
    /\ mpc = "linux"
    /\ pactlFound' = "yes"
    /\ ~AlreadySet(environ)
    /\ cfg.auto_setup_loopback
    /\ \E infoOk \in BOOLEAN :
         LET captured == _get_linux_defaults(infoOk, defaultSink, defaultSource)
         IN  /\ capture_defaults' = captured
             /\ toolFailed' = (toolFailed \/ ~infoOk)
             /\ cleanup_actions' = IF IsSome(captured)
                                   THEN Register(cleanup_actions, Get(captured))
                                   ELSE cleanup_actions
    /\ pactlCalls' = pactlCalls + 1
    /\ mpc' = "linux_script"
    /\ EnsureLocalsGone
    /\ UNCHANGED <<osVars, objVars, outcome, detDevices, stackAtScript, scriptExit,
                   defaultsAtPrepare, cleanupVars, callVars>>

\* _prepare_linux_loopback: auto-setup disabled
LinuxNoAutoSetup ==
    /\ mpc = "linux"
    /\ pactlFound' = "yes"
    /\ ~AlreadySet(environ)
    /\ ~cfg.auto_setup_loopback
    /\ mpc' = "linux_detect"
    /\ EnsureLocalsGone
    /\ UNCHANGED <<osVars, objVars, cleanup_actions, outcome, detDevices,
                   capture_defaults, stackAtScript, scriptExit, defaultsAtPrepare,
                   toolFailed, cleanupVars, pactlCalls, callVars>>

\* _prepare_linux_loopback: the helper script is not a file
LinuxScriptMissing ==
    /\ mpc = "linux_script"
    /\ mpc' = "linux_detect"
    /\ UNCHANGED <<osVars, objVars, cleanup_actions, prepareVars, toolFailed,
                   cleanupVars, pactlCalls, callVars>>

\* _prepare_linux_loopback: subprocess.run(["bash", script], check=True)
LinuxRunScript ==
    /\ mpc = "linux_script"
    /\ \E code \in ExitCodes, sink \in ScriptSinks(defaultSink),
          source \in ScriptSources(defaultSource) :
         /\ defaultSink' = sink
         /\ defaultSource' = source
         /\ scriptExit' = Some(code)
         /\ IF code # 0
            THEN outcome' = "LoopbackSetupFailure" /\ mpc' = "idle"
            ELSE mpc' = "linux_detect" /\ UNCHANGED outcome
    /\ stackAtScript' = Some(cleanup_actions)
    /\ UNCHANGED <<environ, objVars, cleanup_actions, devices, detDevices,
                   capture_defaults, defaultsAtPrepare, pactlFound, toolFailed, cleanupVars,
                   pactlCalls, callVars>>

\* _prepare_linux_loopback: detection after any setup attempt
LinuxDetect ==
    /\ mpc = "linux_detect"
    /\ \E q \in QueryResults :
         /\ detDevices' = q
         /\ outcome' = IF DetectOutcome(q, LinuxKeywords) = "NoLoopbackDetected"
                          /\ cfg.device_index # None
                       THEN "ok"
                       ELSE DetectOutcome(q, LinuxKeywords)
    /\ mpc' = "idle"
    /\ UNCHANGED <<osVars, objVars, cleanup_actions, devices, capture_defaults,
                   stackAtScript, scriptExit, defaultsAtPrepare, pactlFound, toolFailed,
                   cleanupVars, pactlCalls, callVars>>

\* CalledProcessError re-raised as AudioEnvironmentError, as on Linux
SoftScriptFatalNonzero(code) == code # 0

\* _prepare_windows_loopback / _prepare_macos_loopback: CalledProcessError is
\* caught and logged
SoftScriptFatal(code) == FALSE

\* _prepare_windows_loopback / _prepare_macos_loopback: detection unless an
\* index is configured
SoftScriptDetect(keywords) ==
    IF cfg.device_index = None
    THEN \E q \in QueryResults :
           /\ detDevices' = q
           /\ outcome' = DetectOutcome(q, keywords)
    ELSE /\ outcome' = "ok"
         /\ UNCHANGED detDevices

\* _prepare_windows_loopback / _prepare_macos_loopback: the optional helper
\* script (its exit status only logged), then detection unless an index is set
SoftScriptPrepare(system, keywords) ==
    /\ mpc = system
    /\ \E run \in BOOLEAN, code \in ExitCodes :
         IF cfg.auto_setup_loopback /\ run
         THEN /\ scriptExit' = Some(code)
              /\ stackAtScript' = Some(cleanup_actions)
              /\ IF SoftScriptFatal(code)
                 THEN /\ outcome' = "LoopbackSetupFailure"
                      /\ UNCHANGED detDevices
                 ELSE SoftScriptDetect(keywords)
         ELSE /\ UNCHANGED <<scriptExit, stackAtScript>>
              /\ SoftScriptDetect(keywords)
    /\ mpc' = "idle"
    /\ EnsureLocalsGone
    /\ UNCHANGED <<osVars, objVars, cleanup_actions, capture_defaults,
                   defaultsAtPrepare, pactlFound, toolFailed, cleanupVars, pactlCalls, callVars>>

WindowsLoopback == SoftScriptPrepare("windows", WindowsKeywords)
DarwinLoopback  == SoftScriptPrepare("darwin", DarwinKeywords)

----------------------------------------------------------------------------
\* run_easy_start and run_pipeline before they are called
ModuleIds   == 1..MaxModules
NoModules   == [null |-> {}, loop |-> {}]
NoTable     == [id \in ModuleIds |-> "none"]

EasyIdle ==
    /\ epc = "start"
    /\ esResult = "none"
    /\ todo = <<>>
    /\ retval = "none"
    /\ defaults_before_script = None
    /\ modules_before_script = None
    /\ modules_to_unload = NoModules
    /\ headphone_env_previous = None
    /\ loopback_flag_previous = None
    /\ environAtCall = environ
    /\ modulesAtCall = sysModules
    /\ capturedAtStart = None
    /\ snapBefore = NoModules
    /\ modules_after = NoModules
    /\ scriptAnswer = "none"
    /\ startAnswer = "none"
    /\ steps = <<>>
    /\ unloaded = <<>>
    /\ rpc = "none"
    /\ taskState = "none"
    /\ stop_event = FALSE
    /\ cancelRequested = FALSE
    /\ signalled = FALSE

EasyNotCalled ==
    /\ sysModules = NoTable
    /\ interactive = TRUE
    /\ EasyIdle

\* collect_audio_diagnostics and _detect_loopback_candidate before they are
\* called
NoReport == [st |-> "none"]

DiagNotCalled ==
    /\ diagQuery = NotQueried
    /\ report = NoReport
    /\ detected = "none"

\* No command-line boundary has ended, no check of run_easy_start has run
NoExit == [boundary |-> "none"]
NoPhysCall == [st |-> "none"]

CliNotCalled ==
    /\ preflight = <<>>
    /\ cliExit = NoExit
    /\ physCall = NoPhysCall

----------------------------------------------------------------------------
\* The manager driven by its caller: prepare() and cleanup() in any order

EnvironValues == {None, Some("1"), Some("0")}

\* AudioEnvironmentManager.__init__, nothing called yet
MgrIdle ==
    /\ cleanup_actions = <<>>
    /\ mpc = "idle"
    /\ outcome = "none"
    /\ devices = NotQueried
    /\ detDevices = NotQueried
    /\ capture_defaults = None
    /\ stackAtScript = None
    /\ scriptExit = None
    /\ defaultsAtPrepare = <<defaultSink, defaultSource>>
    /\ pactlFound = "none"
    /\ toolFailed = FALSE
    /\ stackAtCleanup = <<>>
    /\ defaultsAtCleanup = <<defaultSink, defaultSource>>
    /\ executed = <<>>
    /\ failures = 0
    /\ cleanupResult = "none"
    /\ pactlCalls = 0
    /\ lastCall = "none"
    /\ prevCall = "none"

Init ==
    /\ cfg \in Configs
    /\ plat \in Platforms
    /\ defaultSink \in InitialSinks
    /\ defaultSource \in InitialSources
    /\ environ \in [HintKeys -> EnvironValues]
    /\ environ[HeadphoneKey] = None
    /\ plat # "linux" => /\ defaultSink = None
                         /\ defaultSource = None
                         /\ environ[LoopbackFlag] = None
    /\ MgrIdle
    /\ EasyNotCalled
    /\ DiagNotCalled
    /\ CliNotCalled

Next ==
    /\ \/ PrepareCall
       \/ PrepareEnsure
       \/ LinuxNoPactl
       \/ LinuxAlreadySet
       \/ LinuxCapture
       \/ LinuxNoAutoSetup
       \/ LinuxScriptMissing
       \/ LinuxRunScript
       \/ LinuxDetect
       \/ WindowsLoopback
       \/ DarwinLoopback
       \/ CleanupCall
       \/ CleanupStep
       \/ CleanupReturn
    /\ UNCHANGED <<easyVars, diagVars, cliVars>>

Spec == Init /\ [][Next]_vars

----------------------------------------------------------------------------
\* cleanup() on its own: any rollback stack of restore closures, drained by
\* repeated cleanup() calls

SinkNames   == {None, Some(PhysicalSink), Some(VirtualSink)}
SourceNames == {None, Some(PhysicalSource), Some(VirtualSource)}

\* The closures _register_linux_defaults_restore can build (it is called
\* with a snapshot that holds a sink or a source)
RestoreActions ==
    {RestoreAction(<<s, c>>) : s \in SinkNames, c \in SourceNames} \ {RestoreAction(<<None, None>>)}

StackConfig ==
    [device_index |-> None, mode |-> "AUTO", auto_setup_loopback |-> TRUE,
     linux_loopback_sink |-> None]

InitStack ==
    /\ cfg = StackConfig
    /\ plat = "linux"
    /\ defaultSink \in InitialSinks
    /\ defaultSource \in InitialSources
    /\ environ = [k \in HintKeys |-> None]
    /\ cleanup_actions \in SeqsUpTo(RestoreActions, MaxStack)
    /\ mpc = "idle"
    /\ outcome = "none"
    /\ devices = NotQueried
    /\ detDevices = NotQueried
    /\ capture_defaults = None
    /\ stackAtScript = None
    /\ scriptExit = None
    /\ defaultsAtPrepare = <<defaultSink, defaultSource>>
    /\ pactlFound = "none"
    /\ toolFailed = FALSE
    /\ stackAtCleanup = <<>>
    /\ defaultsAtCleanup = <<defaultSink, defaultSource>>
    /\ executed = <<>>
    /\ failures = 0
    /\ cleanupResult = "none"
    /\ pactlCalls = 0
    /\ lastCall = "none"
    /\ prevCall = "none"
    /\ EasyNotCalled
    /\ DiagNotCalled
    /\ CliNotCalled

NextStack ==
    /\ \/ CleanupCall
       \/ CleanupStep
       \/ CleanupReturn
    /\ UNCHANGED <<easyVars, diagVars, cliVars>>

SpecStack == InitStack /\ [][NextStack]_vars

----------------------------------------------------------------------------
\* cli.py: the helpers of the easy-start flow

\* _capture_linux_defaults: None when `pactl info` raised or reports neither
\* default
_capture_linux_defaults(infoOk, sink, source) ==
    IF ~infoOk THEN None
    ELSE IF IsSome(sink) \/ IsSome(source) THEN Some(<<sink, source>>)
    ELSE None

\* _restore_linux_defaults: pactl run with check=False, its exit status
\* ignored; rs and rc tell whether the server applied each call
CliResults == {"ok", "nonzero"}

_restore_linux_defaults(defaults, rs, rc, cur) ==
    IF ~IsSome(defaults) THEN cur
    ELSE <<IF IsSome(Get(defaults)[1]) /\ rs = "ok" THEN Get(defaults)[1] ELSE cur[1],
           IF IsSome(Get(defaults)[2]) /\ rc = "ok" THEN Get(defaults)[2] ELSE cur[2]>>

\* _list_linux_devices: the names `pactl list short` printed, [] when it raised
OutputMonitor == "alsa_output.pci.monitor"
SinkListings   == {<<>>, <<PhysicalSink>>, <<VirtualSink>>, <<VirtualSink, PhysicalSink>>}
SourceListings == {<<>>, <<VirtualSource, OutputMonitor>>,
                   <<VirtualSource, OutputMonitor, PhysicalSource>>}

EndsWith(s, suffix) ==
    /\ Len(s) >= Len(suffix)
    /\ SubSeq(s, Len(s) - Len(suffix) + 1, Len(s)) = suffix

RECURSIVE Filter(_, _)
Filter(names, Keep) ==
    IF names = <<>> THEN <<>>
    ELSE IF Keep[Head(names)] THEN <<Head(names)>> \o Filter(Tail(names), Keep)
    ELSE Filter(Tail(names), Keep)

\* a second sound card
UsbSink   == "alsa_output.usb"
UsbSource == "alsa_input.usb"

DeviceNames == {PhysicalSink, PhysicalSource, VirtualSink, VirtualSource, OutputMonitor,
                UsbSink, UsbSource}

IsPhysicalSink   == [n \in DeviceNames |-> ~Contains("codex_transcribe", n)]

\* line 135 without its `".monitor" not in n`
IsPhysicalSourceWithMonitors == [n \in DeviceNames |-> ~Contains("codex_transcribe", n)]

IsPhysicalSource == [n \in DeviceNames |->
                        ~Contains(".monitor", n) /\ ~Contains("codex_transcribe", n)]

\* _ensure_linux_physical_defaults: the defaults it leaves
_ensure_linux_physical_defaults(infoOk, sinks, sources, rs, rc, cur) ==
    IF ~infoOk THEN cur
    ELSE LET current_sink     == cur[1]
             current_source   == cur[2]
             physical_sinks   == Filter(sinks, IsPhysicalSink)
             physical_sources == Filter(sources, IsPhysicalSource)
             sinkMoved   == /\ IsSome(current_sink)
                            /\ Contains("codex_transcribe", Get(current_sink))
                            /\ physical_sinks # <<>>
             sourceMoved == /\ IsSome(current_source)
                            /\ \/ Contains("codex_transcribe", Get(current_source))
                               \/ EndsWith(Get(current_source), ".monitor")
                            /\ physical_sources # <<>>
         IN  <<IF sinkMoved /\ rs = "ok" THEN Some(physical_sinks[1]) ELSE current_sink,
               IF sourceMoved /\ rc = "ok" THEN Some(physical_sources[1])
               ELSE current_source>>

\* The defaults _ensure_linux_physical_defaults may leave, by the defaults it
\* finds
DefaultPairs ==
    {<<k, c>> : k \in {None, Some(PhysicalSink), Some(VirtualSink)},
                c \in {None, Some(PhysicalSource), Some(VirtualSource), Some(OutputMonitor)}}

EnsureOutcomes ==
    [cur \in DefaultPairs |->
        {_ensure_linux_physical_defaults(infoOk, sinks, sources, rs, rc, cur) :
            infoOk \in BOOLEAN, sinks \in SinkListings, sources \in SourceListings,
            rs \in CliResults, rc \in CliResults}]

\* _snapshot_linux_modules: the ids of module-null-sink and module-loopback,
\* both sets empty when `pactl list short modules` raised
ModuleKinds == {"none", "null", "loop"}

_snapshot_linux_modules(listOk, table) ==
    IF ~listOk THEN NoModules
    ELSE [null |-> {id \in ModuleIds : table[id] = "null"},
          loop |-> {id \in ModuleIds : table[id] = "loop"}]

\* the after-snapshot taken whole, nothing subtracted
ModuleDiffAll(after, before) == after

\* modules_after - modules_before_script, kind by kind (lines 242-245, 252-255)
ModuleDiff(after, before) ==
    LET b == IF IsSome(before) THEN Get(before) ELSE NoModules
    IN  [null |-> after.null \ b.null, loop |-> after.loop \ b.loop]

\* The orders in which a for loop may walk a set
Orders(S) == {q \in [1..Cardinality(S) -> S] : \A i, j \in 1..Cardinality(S) :
                                                   i # j => q[i] # q[j]}

\* the two loops swapped: null-sink modules first
UnloadOrdersNullFirst(modules) ==
    {n \o l : n \in Orders(modules.null), l \in Orders(modules.loop)}

\* _unload_linux_modules: every loopback id, then every null-sink id
UnloadOrders(modules) ==
    {l \o n : l \in Orders(modules.loop), n \in Orders(modules.null)}

\* `pactl unload-module` for each id of the sequence
AfterUnload(table, ids) ==
    [id \in ModuleIds |-> IF \E i \in 1..Len(ids) : ids[i] = id THEN "none"
                          ELSE table[id]]

\* The module tables run_easy_start may find: the server numbers its modules
\* in the order it loaded them
PreloadedTables ==
    {t \in [ModuleIds -> ModuleKinds] :
        \E k \in 0..MaxPreloaded : \A id \in ModuleIds : (t[id] = "none") <=> (id > k)}

\* What the Linux helper script may load: null-sink and loopback modules, on
\* the next free ids
ScriptTables(table) ==
    {t \in [ModuleIds -> ModuleKinds] :
        /\ \A id \in ModuleIds : IF table[id] = "none" THEN t[id] \in {"none", "null", "loop"}
                                 ELSE t[id] = table[id]
        /\ \A id \in ModuleIds : (t[id] = "none" /\ id < MaxModules) => t[id + 1] = "none"}

----------------------------------------------------------------------------
\* cli.py: run_easy_start

ctlVars == <<epc, esResult, todo, retval>>

ScriptPlatforms == {"linux", "darwin", "windows"}

\* a rollback block without its _restore_linux_defaults call
BlockNoRestore(system, linuxCalls) == IF system = "linux" THEN linuxCalls ELSE <<>>

\* The calls of a rollback block: _restore_linux_defaults, then the
\* Linux-only calls
Block(system, linuxCalls) ==
    <<"restore_defaults">> \o (IF system = "linux" THEN linuxCalls ELSE <<>>)

\* line 188 without its `return False`: the flow goes on to the diagnostics
AfterEnvironmentCheckNoReturn(ready) == "checked"

\* lines 187-190: where run_easy_start is after `ready = run_environment_check()`
AfterEnvironmentCheck(ready) == IF ready THEN "checked" ELSE "done"

\* lines 187-190: run_environment_check() found a problem
EasyNotReady ==
    /\ epc = "start"
    /\ epc' = AfterEnvironmentCheck(FALSE)
    /\ esResult' = IF epc' = "done" THEN "False" ELSE esResult
    /\ preflight' = Append(preflight, <<"run_environment_check", FALSE>>)
    /\ UNCHANGED <<osVars, mgrVars, diagVars, cliExit, physCall, sysModules,
                   interactive, todo, retval, easyLocals, easyGhosts, easyLog,
                   pipeVars>>

\* lines 187-192: run_environment_check() passed and the settings are loaded
EasyReady ==
    /\ epc = "start"
    /\ epc' = AfterEnvironmentCheck(TRUE)
    /\ preflight' = Append(preflight, <<"run_environment_check", TRUE>>)
    /\ UNCHANGED <<osVars, mgrVars, diagVars, cliExit, physCall, sysModules,
                   interactive, esResult, todo, retval, easyLocals, easyGhosts, easyLog,
                   pipeVars>>

\* lines 193-197: run_cli_diagnostics raised AudioEnvironmentError
EasyDiagnosticsFail ==
    /\ epc = "checked"
    /\ epc' = "done"
    /\ esResult' = "False"
    /\ preflight' = Append(preflight, <<"run_cli_diagnostics", FALSE>>)
    /\ UNCHANGED <<osVars, mgrVars, diagVars, cliExit, physCall, sysModules,
                   interactive, todo, retval, easyLocals, easyGhosts, easyLog,
                   pipeVars>>

\* lines 199-224: the platform's script is selected; on Linux the defaults and
\* the modules are snapshotted
EasySelect ==
    /\ epc = "checked"
    /\ epc' = "selected"
    /\ IF plat = "linux"
       THEN \E infoOk \in BOOLEAN, listOk \in BOOLEAN :
                /\ defaults_before_script' =
                       _capture_linux_defaults(infoOk, defaultSink, defaultSource)
                /\ modules_before_script' =
                       Some(_snapshot_linux_modules(listOk, sysModules))
       ELSE UNCHANGED <<defaults_before_script, modules_before_script>>
    /\ capturedAtStart' = defaults_before_script'
    /\ snapBefore' = IF plat = "linux" THEN Get(modules_before_script') ELSE NoModules
    /\ preflight' = Append(preflight, <<"run_cli_diagnostics", TRUE>>)
    /\ UNCHANGED <<osVars, mgrVars, diagVars, cliExit, physCall, sysModules,
                   interactive, esResult, todo, retval, modules_to_unload,
                   headphone_env_previous, loopback_flag_previous, environAtCall,
                   modulesAtCall, modules_after, scriptAnswer, startAnswer, easyLog,
                   pipeVars>>

\* lines 229-230 left out: nothing is called on Linux after the restore
NonInteractiveLinuxCallsNone == <<>>

\* lines 229-230: `if system == "linux": _ensure_linux_physical_defaults()`
NonInteractiveLinuxCalls == <<"ensure_physical">>

\* lines 226-231: not interactive
EasyNonInteractive ==
    /\ epc = "selected"
    /\ ~interactive
    /\ epc' = "rollback"
    /\ todo' = Block(plat, NonInteractiveLinuxCalls)
    /\ retval' = "True"
    /\ UNCHANGED <<osVars, mgrVars, diagVars, cliVars, sysModules, interactive,
                   esResult, easyLocals, easyGhosts, easyLog, pipeVars>>

\* line 233 false: no script for the platform, or its file is missing
EasyNoScript ==
    /\ epc = "selected"
    /\ interactive
    /\ epc' = "prompt_start"
    /\ UNCHANGED <<osVars, mgrVars, diagVars, cliVars, sysModules, interactive,
                   esResult, todo, retval, easyLocals, easyGhosts, easyLog, pipeVars>>

\* lines 258-260: the user declines the helper script
EasyDeclineScript ==
    /\ epc = "selected"
    /\ interactive
    /\ plat \in ScriptPlatforms
    /\ scriptAnswer' = "no"
    /\ defaults_before_script' = None
    /\ modules_before_script' = None
    /\ epc' = "prompt_start"
    /\ UNCHANGED <<osVars, mgrVars, diagVars, cliVars, sysModules, interactive,
                   esResult, todo, retval, modules_to_unload, headphone_env_previous,
                   loopback_flag_previous, environAtCall, modulesAtCall,
                   capturedAtStart, snapBefore, modules_after, startAnswer, easyLog,
                   pipeVars>>

\* What the helper script does to the audio server before it exits
ScriptRuns ==
    IF plat = "linux"
    THEN /\ defaultSink' \in ScriptSinks(defaultSink)
         /\ defaultSource' \in ScriptSources(defaultSource)
         /\ sysModules' \in ScriptTables(sysModules)
    ELSE UNCHANGED <<defaultSink, defaultSource, sysModules>>

\* lines 237-245: the script is run and exits with 0
EasyScriptOk ==
    /\ epc = "selected"
    /\ interactive
    /\ plat \in ScriptPlatforms
    /\ scriptAnswer' = "yes"
    /\ ScriptRuns
    /\ IF plat = "linux"
       THEN \E listOk \in BOOLEAN :
                /\ modules_after' = _snapshot_linux_modules(listOk, sysModules')
                /\ modules_before_script' =
                       IF IsSome(modules_before_script) THEN modules_before_script
                       ELSE Some(NoModules)
                /\ modules_to_unload' = ModuleDiff(modules_after', modules_before_script)
       ELSE UNCHANGED <<modules_after, modules_before_script, modules_to_unload>>
    /\ epc' = "prompt_start"
    /\ UNCHANGED <<environ, mgrVars, diagVars, cliVars, interactive, esResult, todo, retval,
                   defaults_before_script, headphone_env_previous,
                   loopback_flag_previous, environAtCall, modulesAtCall,
                   capturedAtStart, snapBefore, startAnswer, easyLog, pipeVars>>

\* line 256 left out: the diff is computed and nothing is unloaded
ScriptFailureLinuxCallsNoUnload == <<"snapshot_diff">>

\* lines 250-256: the Linux part of the except block
ScriptFailureLinuxCalls == <<"snapshot_diff", "unload_modules">>

\* lines 246-257: the script (or its launch) raised
EasyScriptFails ==
    /\ epc = "selected"
    /\ interactive
    /\ plat \in ScriptPlatforms
    /\ scriptAnswer' = "yes"
    /\ ScriptRuns
    /\ epc' = "rollback"
    /\ todo' = Block(plat, ScriptFailureLinuxCalls)
    /\ retval' = "False"
    /\ UNCHANGED <<environ, mgrVars, diagVars, cliVars, interactive, esResult,
                   easyLocals, environAtCall, modulesAtCall, capturedAtStart,
                   snapBefore, modules_after, startAnswer, easyLog, pipeVars>>

\* lines 262, 290-298: the user declines to start the pipeline
EasyDeclineStart ==
    /\ epc = "prompt_start"
    /\ startAnswer' = "no"
    /\ epc' = "rollback"
    /\ todo' = Block(plat, <<"pop_hints", "unload_modules", "ensure_physical">>)
    /\ retval' = "True"
    /\ UNCHANGED <<osVars, mgrVars, diagVars, cliVars, sysModules, interactive,
                   esResult, easyLocals, environAtCall, modulesAtCall, capturedAtStart,
                   snapBefore, modules_after, scriptAnswer, easyLog, pipeVars>>

\* lines 266-272 alone: HEADPHONE_SINK is set, AUDIO_LOOPBACK_ALREADY_SET is not
LaunchHintsNoFlag(env, defaults) ==
    [k \in HintKeys |->
        IF k = HeadphoneKey /\ IsSome(defaults) /\ IsSome(Get(defaults)[1])
        THEN Get(defaults)[1]
        ELSE env[k]]

\* lines 266-274: os.environ once the hints are set, `defaults` being
\* defaults_before_script
LaunchHints(env, defaults) ==
    [k \in HintKeys |->
        IF k = LoopbackFlag THEN Some("1")
        ELSE IF IsSome(defaults) /\ IsSome(Get(defaults)[1]) THEN Get(defaults)[1]
        ELSE env[k]]

\* lines 262-275: the user starts the pipeline; on Linux the two hints are set
EasyLaunch ==
    /\ epc = "prompt_start"
    /\ startAnswer' = "yes"
    /\ IF plat = "linux"
       THEN LET hinted == /\ IsSome(defaults_before_script)
                          /\ IsSome(Get(defaults_before_script)[1])
            IN  /\ headphone_env_previous' =
                       IF hinted THEN environ[HeadphoneKey] ELSE None
                /\ loopback_flag_previous' = environ[LoopbackFlag]
                /\ environ' = LaunchHints(environ, defaults_before_script)
       ELSE UNCHANGED <<headphone_env_previous, loopback_flag_previous, environ>>
    /\ epc' = "pipeline"
    /\ rpc' = "setup"
    /\ UNCHANGED <<defaultSink, defaultSource, mgrVars, diagVars, cliVars, sysModules,
                   interactive, esResult, todo, retval, defaults_before_script,
                   modules_before_script, modules_to_unload, environAtCall,
                   modulesAtCall, capturedAtStart, snapBefore, modules_after,
                   scriptAnswer, easyLog, taskState, stop_event, cancelRequested,
                   signalled>>

----------------------------------------------------------------------------
\* cli.py: run_pipeline, run by asyncio.run at line 275

Signals == {"SIGINT", "SIGTERM", "SIGTSTP"}

\* lines 315-331: handle_stop sets stop_event; handle_suspend calls handle_stop
SetsStop(sig) ==
    \/ sig \in {"SIGINT", "SIGTERM"}
    \/ sig = "SIGTSTP"

\* run_task.cancel() not followed by `await run_task`
TaskDoneNoAwait(st) == TRUE

\* `await run_task` resumes once the task is done
TaskDone(st) == st \in {"finished", "failed", "cancelled"}

\* lines 305-331: the settings, the pipeline object or a signal handler cannot
\* be set up (loop.add_signal_handler is not implemented on Windows)
PipelineSetupFails ==
    /\ epc = "pipeline"
    /\ rpc = "setup"
    /\ rpc' = "raised"
    /\ UNCHANGED <<osVars, mgrVars, diagVars, cliVars, sysModules, interactive, ctlVars,
                   easyLocals, easyGhosts, easyLog, taskState, stop_event,
                   cancelRequested, signalled>>

\* lines 305-334: handlers installed, the task created, run_pipeline waits on
\* stop_event
PipelineStart ==
    /\ epc = "pipeline"
    /\ rpc = "setup"
    /\ plat # "windows"
    /\ taskState' = "running"
    /\ rpc' = "waiting"
    /\ UNCHANGED <<osVars, mgrVars, diagVars, cliVars, sysModules, interactive, ctlVars,
                   easyLocals, easyGhosts, easyLog, stop_event, cancelRequested,
                   signalled>>

\* pipeline.run() returns or raises by itself
TaskEnds ==
    /\ taskState = "running"
    /\ taskState' \in {"finished", "failed"}
    /\ UNCHANGED <<osVars, mgrVars, diagVars, cliVars, sysModules, interactive, ctlVars,
                   easyLocals, easyGhosts, easyLog, rpc, stop_event, cancelRequested,
                   signalled>>

\* A signal reaches its handler while run_pipeline waits on stop_event (once
\* stop_event.wait() has returned, setting the event again changes nothing)
Signal ==
    /\ rpc = "waiting"
    /\ \E sig \in Signals :
           /\ signalled' = TRUE
           /\ stop_event' = (stop_event \/ SetsStop(sig))
    /\ UNCHANGED <<osVars, mgrVars, diagVars, cliVars, sysModules, interactive, ctlVars,
                   easyLocals, easyGhosts, easyLog, rpc, taskState, cancelRequested>>

\* lines 334-335: stop_event.wait() returns, run_task.cancel()
PipelineWake ==
    /\ rpc = "waiting"
    /\ stop_event
    /\ cancelRequested' = TRUE
    /\ taskState' = IF taskState = "running" THEN "cancelling" ELSE taskState
    /\ rpc' = "awaiting"
    /\ UNCHANGED <<osVars, mgrVars, diagVars, cliVars, sysModules, interactive, ctlVars,
                   easyLocals, easyGhosts, easyLog, stop_event, signalled>>

\* CancelledError thrown into pipeline.run(): it ends cancelled, or raises
\* something else, or returns
TaskCancelled ==
    /\ taskState = "cancelling"
    /\ taskState' \in {"cancelled", "failed", "finished"}
    /\ UNCHANGED <<osVars, mgrVars, diagVars, cliVars, sysModules, interactive, ctlVars,
                   easyLocals, easyGhosts, easyLog, rpc, stop_event, cancelRequested,
                   signalled>>

\* lines 336-339: `await run_task`; CancelledError is swallowed, any other
\* exception of the task leaves run_pipeline
PipelineReturn ==
    /\ rpc = "awaiting"
    /\ TaskDone(taskState)
    /\ rpc' = IF taskState = "failed" THEN "raised" ELSE "returned"
    /\ UNCHANGED <<osVars, mgrVars, diagVars, cliVars, sysModules, interactive, ctlVars,
                   easyLocals, easyGhosts, easyLog, taskState, stop_event,
                   cancelRequested, signalled>>

\* lines 276-289: asyncio.run is over, the finally block begins
EasyFinally ==
    /\ epc = "pipeline"
    /\ rpc \in {"returned", "raised"}
    /\ epc' = "rollback"
    /\ todo' = Block(plat, <<"restore_hints", "unload_modules", "ensure_physical">>)
    /\ retval' = IF rpc = "returned" THEN "True" ELSE "raised"
    /\ UNCHANGED <<osVars, mgrVars, diagVars, cliVars, sysModules, interactive,
                   esResult, easyLocals, easyGhosts, easyLog, pipeVars>>

----------------------------------------------------------------------------
\* cli.py: the calls of run_easy_start's rollback blocks, one at a time

NextCall(name) ==
    /\ epc = "rollback"
    /\ todo # <<>>
    /\ Head(todo) = name
    /\ todo' = Tail(todo)

\* lines 227-228, 248-249, 277-278, 292-293:
\* `if defaults_before_script: _restore_linux_defaults(defaults_before_script)`
DoRestoreDefaults ==
    /\ NextCall("restore_defaults")
    /\ IF IsSome(defaults_before_script)
       THEN /\ \E rs \in CliResults, rc \in CliResults :
                   LET after == _restore_linux_defaults(defaults_before_script, rs, rc,
                                                        <<defaultSink, defaultSource>>)
                   IN  /\ defaultSink' = after[1]
                       /\ defaultSource' = after[2]
            /\ steps' = Append(steps, "restore_defaults")
       ELSE UNCHANGED <<defaultSink, defaultSource, steps>>
    /\ UNCHANGED <<environ, mgrVars, diagVars, cliVars, sysModules, interactive, epc,
                   esResult, retval, easyLocals, easyGhosts, unloaded, pipeVars>>

\* lines 251-255: the modules are listed again and compared with the first
\* snapshot
DoSnapshotDiff ==
    /\ NextCall("snapshot_diff")
    /\ \E listOk \in BOOLEAN :
           modules_after' = _snapshot_linux_modules(listOk, sysModules)
    /\ modules_before_script' =
           IF IsSome(modules_before_script) THEN modules_before_script
           ELSE Some(NoModules)
    /\ modules_to_unload' = ModuleDiff(modules_after', modules_before_script)
    /\ UNCHANGED <<osVars, mgrVars, diagVars, cliVars, sysModules, interactive, epc,
                   esResult, retval, defaults_before_script, headphone_env_previous,
                   loopback_flag_previous, environAtCall, modulesAtCall,
                   capturedAtStart, snapBefore, scriptAnswer, startAnswer, easyLog,
                   pipeVars>>

\* lines 280-287: each hint set back to the value saved at launch, or removed
\* when none was saved
DoRestoreHints ==
    /\ NextCall("restore_hints")
    /\ environ' = [k \in HintKeys |-> IF k = HeadphoneKey THEN headphone_env_previous
                                      ELSE loopback_flag_previous]
    /\ steps' = Append(steps, "restore_hints")
    /\ UNCHANGED <<defaultSink, defaultSource, mgrVars, diagVars, cliVars, sysModules,
                   interactive, epc, esResult, retval, easyLocals, easyGhosts, unloaded,
                   pipeVars>>

\* lines 295-296: both hints removed
DoPopHints ==
    /\ NextCall("pop_hints")
    /\ environ' = [k \in HintKeys |-> None]
    /\ steps' = Append(steps, "pop_hints")
    /\ UNCHANGED <<defaultSink, defaultSource, mgrVars, diagVars, cliVars, sysModules,
                   interactive, epc, esResult, retval, easyLocals, easyGhosts, unloaded,
                   pipeVars>>

\* lines 256, 288, 297: _unload_linux_modules(modules_to_unload)
DoUnload ==
    /\ NextCall("unload_modules")
    /\ \E ids \in UnloadOrders(modules_to_unload) :
           /\ unloaded' = unloaded \o ids
           /\ sysModules' = AfterUnload(sysModules, ids)
    /\ steps' = Append(steps, "unload_modules")
    /\ UNCHANGED <<osVars, mgrVars, diagVars, cliVars, interactive, epc, esResult,
                   retval, easyLocals, easyGhosts, pipeVars>>

\* lines 230, 289, 298: _ensure_linux_physical_defaults()
DoEnsurePhysical ==
    /\ NextCall("ensure_physical")
    /\ \E after \in EnsureOutcomes[<<defaultSink, defaultSource>>] :
           /\ defaultSink' = after[1]
           /\ defaultSource' = after[2]
    /\ steps' = Append(steps, "ensure_physical")
    /\ UNCHANGED <<environ, mgrVars, diagVars, cliVars, sysModules, interactive, epc,
                   esResult, retval, easyLocals, easyGhosts, unloaded, pipeVars>>

\* lines 231, 257, 299, or the exception of run_pipeline leaving the finally
\* block
EasyReturn ==
    /\ epc = "rollback"
    /\ todo = <<>>
    /\ epc' = "done"
    /\ esResult' = retval
    /\ UNCHANGED <<osVars, mgrVars, diagVars, cliVars, sysModules, interactive, todo,
                   retval, easyLocals, easyGhosts, easyLog, pipeVars>>

\* The exit status of the interpreter once main() is over: 0 when main()
\* returned, 1 when an exception left it
ProcessStatus(raised) == IF raised THEN 1 ELSE 0

\* main(), lines 413-415: `run_easy_start(args.backend, args.log_file)` (so
\* interactive) is over, `return`; what run_easy_start returned is not used
MainEasyStart ==
    /\ epc = "done"
    /\ interactive
    /\ cliExit = NoExit
    /\ cliExit' = [boundary |-> "easy_start",
                   status |-> ProcessStatus(esResult = "raised"),
                   printed |-> /\ preflight # <<>>
                               /\ preflight[Len(preflight)] = <<"run_cli_diagnostics", FALSE>>]
    /\ UNCHANGED <<osVars, mgrVars, diagVars, easyVars, preflight, physCall>>

----------------------------------------------------------------------------
\* run_easy_start called once, on any platform and audio server

HeadphoneValues == {None, Some("alsa_output.usb")}
FlagValues      == {None, Some("0")}

InitEasy ==
    /\ cfg = StackConfig
    /\ plat \in Platforms
    /\ defaultSink \in InitialSinks
    /\ defaultSource \in InitialSources
    /\ environ \in [HintKeys -> FlagValues \cup HeadphoneValues]
    /\ environ[LoopbackFlag] \in FlagValues
    /\ environ[HeadphoneKey] \in HeadphoneValues
    /\ sysModules \in PreloadedTables
    /\ plat # "linux" => /\ defaultSink = None
                         /\ defaultSource = None
                         /\ sysModules = NoTable
    /\ interactive \in BOOLEAN
    /\ MgrIdle
    /\ EasyIdle
    /\ DiagNotCalled
    /\ CliNotCalled

NextEasy ==
    \/ EasyNotReady
    \/ EasyReady
    \/ EasyDiagnosticsFail
    \/ EasySelect
    \/ EasyNonInteractive
    \/ EasyNoScript
    \/ EasyDeclineScript
    \/ EasyScriptOk
    \/ EasyScriptFails
    \/ EasyDeclineStart
    \/ EasyLaunch
    \/ PipelineSetupFails
    \/ PipelineStart
    \/ TaskEnds
    \/ Signal
    \/ PipelineWake
    \/ TaskCancelled
    \/ PipelineReturn
    \/ EasyFinally
    \/ DoRestoreDefaults
    \/ DoSnapshotDiff
    \/ DoRestoreHints
    \/ DoPopHints
    \/ DoUnload
    \/ DoEnsurePhysical
    \/ EasyReturn
    \/ MainEasyStart

SpecEasy == InitEasy /\ [][NextEasy]_vars

\* The steps the interpreter and the asyncio event loop take by themselves
\* once the pipeline is launched: a coroutine that can resume is resumed, a
\* cancellation thrown into the task ends it, a statement that can run runs.
\* A signal, the end of pipeline.run() by itself and the answers at the
\* prompts are left to the environment.
EasyProgress ==
    \/ PipelineWake
    \/ TaskCancelled
    \/ PipelineReturn
    \/ EasyFinally
    \/ DoRestoreDefaults
    \/ DoSnapshotDiff
    \/ DoRestoreHints
    \/ DoPopHints
    \/ DoUnload
    \/ DoEnsurePhysical
    \/ EasyReturn

SpecEasyLive == SpecEasy /\ WF_vars(EasyProgress)

----------------------------------------------------------------------------
\* collect_audio_diagnostics, and _detect_loopback_candidate as prepare()
\* calls it, applied to one enumeration

\* _summarise_devices: one AudioDeviceSummary per device, in order
_summarise_devices(devs) ==
    [idx \in 1..Len(devs) |->
        [index |-> idx - 1, name |-> devs[idx].name,
         inputs |-> devs[idx].max_input_channels]]

\* the loopback_keywords table, `.get(platform_key, set())`
loopback_keywords(platform_key) ==
    CASE platform_key = "linux"   -> {"monitor", "loopback"}
      [] platform_key = "windows" -> {"loopback", "stereo mix", "cable output",
                                      "cable input", "virtual"}
      [] platform_key = "darwin"  -> {"blackhole", "loopback", "soundflower",
                                      "aggregate", "multi-output"}
      [] OTHER                    -> {}

\* the loop body with the keyword test only
SummaryIsCandidateKeywordsOnly(summary, platform_key, config) ==
    \E keyword \in {Lower(kw) : kw \in loopback_keywords(platform_key)} :
        Contains(keyword, Lower(summary.name))

\* the loop body with `sink_hint == lowered` for `sink_hint in lowered`
SummaryIsCandidateHintEquals(summary, platform_key, config) ==
    LET lowered == Lower(summary.name)
        first   == SummaryIsCandidateKeywordsOnly(summary, platform_key, config)
    IN  CASE platform_key = "linux" ->
               \/ first
               \/ /\ IsSome(config.linux_loopback_sink)
                  /\ Lower(Get(config.linux_loopback_sink)) = lowered
               \/ lowered \in {"pipewire", "default"} /\ summary.inputs >= 2
          [] platform_key = "windows" ->
               first \/ (Contains("loopback", lowered) /\ Contains("wasapi", lowered))
          [] platform_key = "darwin" ->
               first \/ Contains("blackhole", lowered)
          [] OTHER -> first

\* the body of `for summary in input_summaries`
SummaryIsCandidate(summary, platform_key, config) ==
    LET lowered     == Lower(summary.name)
        keyword_set == {Lower(kw) : kw \in loopback_keywords(platform_key)}
        sink_hint   == IF platform_key = "linux" /\ IsSome(config.linux_loopback_sink)
                                                 /\ Get(config.linux_loopback_sink) # ""
                       THEN Some(Lower(Get(config.linux_loopback_sink)))
                       ELSE None
        first       == \E keyword \in keyword_set : Contains(keyword, lowered)
    IN  CASE platform_key = "linux" ->
               LET second == first \/ (IsSome(sink_hint) /\ Contains(Get(sink_hint), lowered))
               IN  second \/ (lowered \in {"pipewire", "default"} /\ summary.inputs >= 2)
          [] platform_key = "windows" ->
               first \/ (Contains("loopback", lowered) /\ Contains("wasapi", lowered))
          [] platform_key = "darwin" ->
               first \/ Contains("blackhole", lowered)
          [] OTHER -> first

\* that body applied to the devices and hints of the model, once
SummaryTable ==
    [d \in AllDeviceKinds, h \in DiagSinkHints, system \in Platforms |->
        SummaryIsCandidate([name |-> d.name, inputs |-> d.max_input_channels], system,
                           [linux_loopback_sink |-> h])]

\* enumerate(...): the positions of a list, in order
Positions(n) == [i \in 1..n |-> i]

\* the texts appended to `issues`
NoInputIssue     == "no input device found"
NoCandidateIssue == "no loopback input candidate detected"

\* the entries appended to `recommendations`; the candidate listing carries
\* the names joined into it
Recommendation(k, n) == [kind |-> k, names |-> n]
SetIndexRecommendation   == Recommendation("set AUDIO_DEVICE_INDEX", <<>>)
CheckIndexRecommendation == Recommendation("check AUDIO_DEVICE_INDEX routing", <<>>)
CandidateListing(names)  == Recommendation("loopback candidates", names)

\* loopback_candidates[:3]
FirstThree(seq) == SubSeq(seq, 1, IF Len(seq) < 3 THEN Len(seq) ELSE 3)

\* the no-candidate branch never taken
LacksCandidatesNever(mode, candidates) == FALSE

\* `effective_mode is AudioCaptureMode.LOOPBACK and not loopback_candidates`
LacksCandidates(mode, candidates) == mode = "LOOPBACK" /\ candidates = <<>>

\* the range test of line 386 starting at 1
ConfiguredInRangeFromOne(index, n) == 0 < index /\ index < n

\* line 386: `0 <= config.device_index < len(summaries)`
ConfiguredInRange(index, n) == 0 <= index /\ index < n

\* the test of line 397 without its `and input_summaries`
AdvisesSetIndexAlways(config, input_summaries) == config.device_index = None

\* line 397: `if config.device_index is None and input_summaries:`
AdvisesSetIndex(config, input_summaries) ==
    config.device_index = None /\ input_summaries # <<>>

collect_audio_diagnostics(q, config, system) ==
    IF q.st = "raised" THEN [st |-> "raised"]
    ELSE
    LET devs          == q.devs
        input_devices == SelectSeq(devs, LAMBDA dev : dev.max_input_channels > 0)
        summaries     == _summarise_devices(devs)
        InInputs(idx) == \E j \in 1..Len(input_devices) : input_devices[j] = devs[idx]
        inputIdx      == SelectSeq(Positions(Len(devs)), LAMBDA idx : InInputs(idx))
        input_summaries == [k \in 1..Len(inputIdx) |-> summaries[inputIdx[k]]]
        IsCand(k)     == SummaryTable[devs[inputIdx[k]], config.linux_loopback_sink, system]
        candIdx       == SelectSeq(Positions(Len(input_summaries)), LAMBDA k : IsCand(k))
        loopback_candidates == [k \in 1..Len(candIdx) |-> input_summaries[candIdx[k]]]
        configured_device ==
            IF IsSome(config.device_index)
               /\ ConfiguredInRange(Get(config.device_index), Len(summaries))
            THEN Some(summaries[Get(config.device_index) + 1])
            ELSE None
        effective_mode == resolve_capture_mode(config, system)
        issues1 == IF input_summaries = <<>> THEN <<NoInputIssue>> ELSE <<>>
        recs1   == IF AdvisesSetIndex(config, input_summaries)
                   THEN <<SetIndexRecommendation>> ELSE <<>>
        noCand  == LacksCandidates(effective_mode, loopback_candidates)
        issues2 == IF noCand /\ config.device_index = None
                   THEN Append(issues1, NoCandidateIssue) ELSE issues1
        recs2   == IF noCand /\ config.device_index # None
                   THEN Append(recs1, CheckIndexRecommendation) ELSE recs1
        recs3   == IF effective_mode = "LOOPBACK" /\ loopback_candidates # <<>>
                   THEN Append(recs2, CandidateListing(
                            [k \in 1..Len(FirstThree(loopback_candidates)) |->
                                loopback_candidates[k].name]))
                   ELSE recs2
    IN  [st |-> "ok",
         platform |-> system,
         mode |-> effective_mode,
         input_devices |-> input_summaries,
         loopback_candidates |-> loopback_candidates,
         configured_device |-> configured_device,
         issues |-> issues2,
         recommendations |-> recs3]

\* the keyword set each _prepare_*_loopback passes to the detection
PrepareKeywords(system) ==
    CASE system = "linux"   -> LinuxKeywords
      [] system = "windows" -> WindowsKeywords
      [] system = "darwin"  -> DarwinKeywords

\* collect_audio_diagnostics(config)
DiagCollect ==
    /\ report = NoReport
    /\ report' = collect_audio_diagnostics(diagQuery, cfg, plat)
    /\ UNCHANGED <<osVars, mgrVars, easyVars, cliVars, diagQuery, detected>>

\* self._detect_loopback_candidate(keywords), on the platforms whose
\* _prepare_*_loopback calls it
DiagDetect ==
    /\ detected = "none"
    /\ plat \in {"linux", "windows", "darwin"}
    /\ detected' = IF diagQuery.st = "raised" THEN "raised"
                   ELSE IF _detect_loopback_candidate(diagQuery.devs, PrepareKeywords(plat),
                                                      cfg, plat)
                        THEN "yes"
                        ELSE "no"
    /\ UNCHANGED <<osVars, mgrVars, easyVars, cliVars, diagQuery, report>>

\* main(), lines 396-401: --diagnose-audio; AudioEnvironmentError is printed,
\* then `return`
MainDiagnoseAudio ==
    /\ report = NoReport
    /\ cliExit = NoExit
    /\ report' = collect_audio_diagnostics(diagQuery, cfg, plat)
    /\ cliExit' = [boundary |-> "diagnose_audio",
                   status |-> ProcessStatus(FALSE),
                   printed |-> report'.st = "raised"]
    /\ UNCHANGED <<osVars, mgrVars, easyVars, diagQuery, detected, preflight, physCall>>

\* scripts/diagnose_audio.py, lines 18-31: main() returns 1 when
\* AudioEnvironmentError was raised, 0 otherwise; sys.exit(main())
ScriptDiagnoseAudio ==
    /\ report = NoReport
    /\ cliExit = NoExit
    /\ report' = collect_audio_diagnostics(diagQuery, cfg, plat)
    /\ cliExit' = [boundary |-> "diagnose_script",
                   status |-> IF report'.st = "raised" THEN 1 ELSE 0,
                   printed |-> report'.st = "raised"]
    /\ UNCHANGED <<osVars, mgrVars, easyVars, diagQuery, detected, preflight, physCall>>

DiagIndexValues == {None, Some(0)}

DiagConfigs ==
    [ device_index        : DiagIndexValues,
      mode                : Modes,
      auto_setup_loopback : {TRUE},
      linux_loopback_sink : DiagSinkHints ]

DiagQueryResults ==
    {Queried(d) : d \in SeqsUpTo(DiagDeviceKinds, MaxDevices)} \cup {QueryFailed}

InitDiag ==
    /\ cfg \in DiagConfigs
    /\ plat \in Platforms
    /\ defaultSink = None
    /\ defaultSource = None
    /\ environ = [k \in HintKeys |-> None]
    /\ MgrIdle
    /\ EasyNotCalled
    /\ diagQuery \in DiagQueryResults
    /\ report = NoReport
    /\ detected = "none"
    /\ CliNotCalled

NextDiag ==
    \/ DiagCollect
    \/ DiagDetect
    \/ MainDiagnoseAudio
    \/ ScriptDiagnoseAudio

SpecDiag == InitDiag /\ [][NextDiag]_vars

----------------------------------------------------------------------------
\* The configured device index against an enumeration: the report of
\* collect_audio_diagnostics, and the validation prepare() begins with

\* prepare(), line 64: self._ensure_device_presence(), on its own enumeration
EnsureDevicePresence ==
    /\ outcome = "none"
    /\ \E q \in QueryResults :
           /\ devices' = q
           /\ outcome' = _ensure_device_presence(q, cfg)
    /\ UNCHANGED <<osVars, objVars, cleanup_actions, mpc, detDevices, capture_defaults,
                   stackAtScript, scriptExit, defaultsAtPrepare, pactlFound, toolFailed,
                   cleanupVars, pactlCalls, callVars, easyVars, diagVars, cliVars>>

IndexConfigs ==
    [ device_index        : {None} \cup {Some(i) : i \in IndexValues},
      mode                : Modes,
      auto_setup_loopback : {TRUE},
      linux_loopback_sink : {None} ]

InitIndex ==
    /\ cfg \in IndexConfigs
    /\ plat \in Platforms
    /\ defaultSink = None
    /\ defaultSource = None
    /\ environ = [k \in HintKeys |-> None]
    /\ MgrIdle
    /\ EasyNotCalled
    /\ diagQuery \in QueryResults
    /\ report = NoReport
    /\ detected = "none"
    /\ CliNotCalled

NextIndex ==
    \/ DiagCollect
    \/ EnsureDevicePresence

SpecIndex == InitIndex /\ [][NextIndex]_vars

----------------------------------------------------------------------------
\* cli.py: _ensure_linux_physical_defaults called once, on any defaults and
\* any listing of the sinks and sources

\* What `pactl list short sinks` / `sources` may print: the names in any
\* order, [] when it raised
ListedSinks   == UNION {Orders(S) : S \in SUBSET {VirtualSink, PhysicalSink, UsbSink}}
ListedSources ==
    UNION {Orders(S) : S \in SUBSET {VirtualSource, OutputMonitor, PhysicalSource, UsbSource}}

EnsurePhysicalCall ==
    /\ physCall = NoPhysCall
    /\ \E infoOk \in BOOLEAN, sinks \in ListedSinks, sources \in ListedSources,
          rs \in CliResults, rc \in CliResults :
           LET after == _ensure_linux_physical_defaults(infoOk, sinks, sources, rs, rc,
                                                        <<defaultSink, defaultSource>>)
           IN  /\ physCall' = [st |-> "returned", infoOk |-> infoOk, sinks |-> sinks,
                                sources |-> sources, rs |-> rs, rc |-> rc,
                                before |-> <<defaultSink, defaultSource>>]
               /\ defaultSink' = after[1]
               /\ defaultSource' = after[2]
    /\ UNCHANGED <<environ, mgrVars, easyVars, diagVars, preflight, cliExit>>

InitPhysical ==
    /\ cfg = StackConfig
    /\ plat = "linux"
    /\ \E cur \in DefaultPairs : defaultSink = cur[1] /\ defaultSource = cur[2]
    /\ environ = [k \in HintKeys |-> None]
    /\ MgrIdle
    /\ EasyNotCalled
    /\ DiagNotCalled
    /\ CliNotCalled

NextPhysical == EnsurePhysicalCall

SpecPhysical == InitPhysical /\ [][NextPhysical]_vars

----------------------------------------------------------------------------
\* Properties

CleanupDone == mpc = "idle" /\ lastCall = "cleanup"

\* C1: cleanup() executes the registered rollback actions in the reverse of
\* their registration order ([A, B, C] run as [C, B, A]), and a cleanup()
\* called again once the stack is drained executes no action.
C1_CleanupIsLifo ==
    CleanupDone =>
        /\ executed = Reverse(stackAtCleanup)
        /\ prevCall = "cleanup" => executed = <<>>

C1_Witness ==
    /\ CleanupDone
    /\ Len(stackAtCleanup) = 3
    /\ Cardinality({stackAtCleanup[i] : i \in 1..3}) = 3
    /\ executed = <<stackAtCleanup[3], stackAtCleanup[2], stackAtCleanup[1]>>

\* C2: whichever rollback actions raise, cleanup() executes every action of
\* the stack, returns normally and leaves the stack empty.
C2_CleanupNeverFails ==
    CleanupDone =>
        /\ cleanupResult = "returned"
        /\ cleanup_actions = <<>>
        /\ Len(executed) = Len(stackAtCleanup)

C2_Witness ==
    /\ CleanupDone
    /\ cleanupResult = "returned"
    /\ Len(executed) = 3
    /\ failures = 2

IndexOutsideEnumeration ==
    /\ lastCall = "prepare"
    /\ devices.st = "ok"
    /\ IsSome(cfg.device_index)
    /\ Get(cfg.device_index) \notin 0..(Len(devices.devs) - 1)

\* C9: with a configured device index outside [0, deviceCount-1], prepare()
\* fails with the device-unavailable error, having invoked no helper script
\* and no pactl, and having registered no rollback action.
C9_OutOfRangeIndexFails ==
    IndexOutsideEnumeration =>
        /\ mpc = "idle"
        /\ outcome = "DeviceUnavailable"
        /\ stackAtScript = None
        /\ scriptExit = None
        /\ pactlCalls = 0
        /\ cleanup_actions = <<>>

C9_Witness ==
    /\ IndexOutsideEnumeration
    /\ Len(devices.devs) = MaxDevices
    /\ Get(cfg.device_index) = MaxDevices
    /\ resolve_capture_mode(cfg, plat) = "LOOPBACK"
    /\ outcome = "DeviceUnavailable"

\* C10 as stated: whenever the Linux helper script is invoked, a
\* defaults-restore action is already on the rollback stack.
C10_RestoreAlwaysRegistered ==
    (plat = "linux" /\ IsSome(stackAtScript)) => HasRestore(Get(stackAtScript))

\* C10: when the Linux helper script is invoked the defaults have been
\* snapshotted; if the snapshot holds a sink or a source its restore action is
\* the one on the rollback stack, and if it holds neither (or `pactl info`
\* failed) the stack is empty; a nonzero exit ends prepare() with the
\* loopback-setup error and the stack as it was at the invocation.
C10_RestoreRegisteredWhenCaptured ==
    (plat = "linux" /\ IsSome(stackAtScript)) =>
        /\ pactlCalls >= 1
        /\ IsSome(capture_defaults) =>
               Get(stackAtScript) = <<RestoreAction(Get(capture_defaults))>>
        /\ ~IsSome(capture_defaults) => Get(stackAtScript) = <<>>
        /\ scriptExit # Some(0) =>
               /\ mpc = "idle"
               /\ outcome = "LoopbackSetupFailure"
               /\ cleanup_actions = Get(stackAtScript)

\* the snapshot was registered, the script exited with 1, prepare() failed
C10_Witness ==
    /\ plat = "linux"
    /\ scriptExit = Some(1)
    /\ outcome = "LoopbackSetupFailure"
    /\ IsSome(capture_defaults)
    /\ cleanup_actions = <<RestoreAction(<<Some(PhysicalSink), Some(PhysicalSource)>>)>>

----------------------------------------------------------------------------
\* Properties of run_easy_start and run_pipeline

Called(name) == \E i \in 1..Len(steps) : steps[i] = name

EasyDone == epc = "done"

\* C3: on Linux, when a launched pipeline run has ended (returned or
\* raised), AUDIO_LOOPBACK_ALREADY_SET and HEADPHONE_SINK are each as they were
\* when run_easy_start was called.
C3_HintsRestored ==
    (EasyDone /\ plat = "linux" /\ startAnswer = "yes") => environ = environAtCall

\* C4: a signal delivered to run_pipeline sets stop_event, SIGTSTP as SIGINT
\* and SIGTERM do; once run_pipeline is past stop_event.wait() the task has
\* been cancelled; and no rollback block of run_easy_start begins after a
\* launch while the task is still running or being cancelled.
C4_TaskCompleteBeforeRollback ==
    /\ signalled => stop_event
    /\ (rpc \in {"awaiting", "returned", "raised"} /\ taskState # "none") =>
           cancelRequested
    /\ (startAnswer = "yes" /\ epc \in {"rollback", "done"}) =>
           taskState \in {"none", "finished", "failed", "cancelled"}
    /\ (signalled /\ epc \in {"rollback", "done"}) =>
           cancelRequested /\ TaskDone(taskState)

\* a signal arrived, the task ended cancelled, and the whole rollback block
\* has run since
C4_Witness ==
    /\ EasyDone
    /\ plat = "linux"
    /\ signalled
    /\ taskState = "cancelled"
    /\ esResult = "True"
    /\ Called("restore_defaults")
    /\ Called("restore_hints")
    /\ Called("unload_modules")
    /\ Called("ensure_physical")

PastStartPrompt == EasyDone /\ plat = "linux" /\ interactive /\ startAnswer # "none"

\* C6 as stated: in the interactive flow on Linux, after the run or a declined
\* launch, the defaults snapshotted at the start have been restored, the
\* modules unloaded and the physical defaults enforced, on every path.
C6_AlwaysRestores ==
    PastStartPrompt =>
        /\ IsSome(capturedAtStart) => Called("restore_defaults")
        /\ Called("unload_modules")
        /\ Called("ensure_physical")

\* C6: in the interactive flow on Linux, after the run or a declined launch,
\* the modules are unloaded and then the physical defaults enforced on every
\* path; the defaults snapshotted at the start are restored first exactly
\* when the snapshot holds a default and the user did not decline the helper
\* script.
C6_RestoresUnlessScriptDeclined ==
    PastStartPrompt =>
        LET restored == IsSome(capturedAtStart) /\ scriptAnswer # "no"
        IN  /\ Called("restore_defaults") <=> restored
            /\ restored => defaults_before_script = capturedAtStart
            /\ steps = (IF restored THEN <<"restore_defaults">> ELSE <<>>)
                       \o <<IF startAnswer = "yes" THEN "restore_hints" ELSE "pop_hints",
                            "unload_modules", "ensure_physical">>

\* the script ran, the launch was declined, and the three rollback calls were
\* made
C6_Witness ==
    /\ PastStartPrompt
    /\ scriptAnswer = "yes"
    /\ startAnswer = "no"
    /\ IsSome(capturedAtStart)
    /\ steps = <<"restore_defaults", "pop_hints", "unload_modules", "ensure_physical">>
    /\ unloaded # <<>>

InDiff(id) ==
    \/ id \in modules_after.null \ snapBefore.null
    \/ id \in modules_after.loop \ snapBefore.loop

LoadedAtCall(id) == modulesAtCall[id] \in {"null", "loop"}

C8_LoopbackBeforeNullSink ==
    Called("unload_modules") =>
        /\ \A i, j \in 1..Len(unloaded) :
               i < j => ~(unloaded[i] \in modules_to_unload.null
                          /\ unloaded[j] \in modules_to_unload.loop)
        /\ {unloaded[i] : i \in 1..Len(unloaded)}
               = modules_to_unload.loop \cup modules_to_unload.null
        /\ Len(unloaded) = Cardinality(modules_to_unload.loop)
                           + Cardinality(modules_to_unload.null)
        /\ (/\ snapBefore = [null |-> {1}, loop |-> {}]
            /\ modules_after = [null |-> {1, 2}, loop |-> {3}]) => unloaded = <<3, 2>>

\* the example of the claim, unloaded
C8_Witness ==
    /\ Called("unload_modules")
    /\ snapBefore = [null |-> {1}, loop |-> {}]
    /\ modules_after = [null |-> {1, 2}, loop |-> {3}]
    /\ unloaded = <<3, 2>>

----------------------------------------------------------------------------
\* Properties of prepare(): which paths mutate, which paths detect

PrepareReturned == lastCall = "prepare" /\ mpc = "idle"

LinuxLoopbackPrepare ==
    /\ lastCall = "prepare"
    /\ plat = "linux"
    /\ resolve_capture_mode(cfg, plat) = "LOOPBACK"

\* what the candidate detection of the current prepare() call found
LinuxCandidateFound ==
    /\ detDevices.st = "ok"
    /\ _detect_loopback_candidate(detDevices.devs, LinuxKeywords, cfg, plat)

\* C11: on Linux in LOOPBACK mode with AUDIO_LOOPBACK_ALREADY_SET = "1",
\* prepare() never invokes the helper script, never registers a rollback
\* action, never runs pactl and leaves the defaults alone, whatever the
\* auto-setup flag is; once pactl has been found it returns successfully with
\* no index configured only when the detection found a candidate.
C11_AlreadySetNoMutation ==
    (LinuxLoopbackPrepare /\ environ[LoopbackFlag] = Some("1")) =>
        /\ stackAtScript = None
        /\ scriptExit = None
        /\ capture_defaults = None
        /\ cleanup_actions = <<>>
        /\ pactlCalls = 0
        /\ <<defaultSink, defaultSource>> = defaultsAtPrepare
        /\ (mpc = "idle" /\ pactlFound = "yes" /\ cfg.device_index = None) =>
               /\ outcome \in {"ok", "NoLoopbackDetected", "EnumerationFailure"}
               /\ outcome = "ok" <=> LinuxCandidateFound

\* the flag is "1", auto-setup is enabled, prepare() verified and returned
C11_Witness ==
    /\ LinuxLoopbackPrepare
    /\ environ[LoopbackFlag] = Some("1")
    /\ cfg.auto_setup_loopback
    /\ cfg.device_index = None
    /\ IsSome(defaultSink)
    /\ mpc = "idle"
    /\ pactlFound = "yes"
    /\ outcome = "ok"
    /\ LinuxCandidateFound

\* C12 as stated: on Linux in LOOPBACK mode with no index configured,
\* prepare() returns successfully only if the enumeration made after the
\* setup attempt holds a candidate, and fails with the no-loopback error if it
\* holds none, on every path.
C12_SucceedsOnlyWithCandidate ==
    (LinuxLoopbackPrepare /\ mpc = "idle" /\ cfg.device_index = None) =>
        /\ outcome = "ok" => LinuxCandidateFound
        /\ (detDevices.st = "ok" /\ ~LinuxCandidateFound) => outcome = "NoLoopbackDetected"

\* C12: the same on every path on which pactl is found (flag set, auto-setup
\* enabled, auto-setup disabled); when pactl is not found prepare() returns
\* successfully without enumerating the devices again.
C12_SucceedsOnlyWithCandidateIfPactl ==
    (LinuxLoopbackPrepare /\ mpc = "idle" /\ cfg.device_index = None) =>
        /\ pactlFound = "yes" =>
               /\ outcome = "ok" => LinuxCandidateFound
               /\ (detDevices.st = "ok" /\ ~LinuxCandidateFound) =>
                      outcome = "NoLoopbackDetected"
        /\ pactlFound = "no" => outcome = "ok" /\ detDevices = NotQueried

\* the helper script exited with 0 and the detection found nothing
C12_Witness ==
    /\ LinuxLoopbackPrepare
    /\ mpc = "idle"
    /\ cfg.device_index = None
    /\ pactlFound = "yes"
    /\ scriptExit = Some(0)
    /\ detDevices.st = "ok"
    /\ detDevices.devs # <<>>
    /\ ~LinuxCandidateFound
    /\ outcome = "NoLoopbackDetected"

\* prepare() returned from _prepare_windows_loopback or _prepare_macos_loopback
SoftPrepareReturned ==
    /\ PrepareReturned
    /\ plat \in {"windows", "darwin"}
    /\ resolve_capture_mode(cfg, plat) = "LOOPBACK"
    /\ devices = NotQueried
    /\ outcome # "none"

\* the outcome the configuration and the enumeration alone call for
SoftExpectedOutcome ==
    IF cfg.device_index # None THEN "ok"
    ELSE IF detDevices.st # "ok" THEN "EnumerationFailure"
    ELSE IF _detect_loopback_candidate(detDevices.devs,
                IF plat = "windows" THEN WindowsKeywords ELSE DarwinKeywords, cfg, plat)
         THEN "ok"
         ELSE "NoLoopbackDetected"

\* C13: on Windows and macOS the helper script's exit status never makes
\* prepare() fail: the outcome is the one the configuration and the
\* enumeration call for, whether the script exited with zero, with nonzero or
\* was not run; it is the no-loopback error exactly when no index is
\* configured and the enumeration holds no candidate.
C13_SoftScriptFailureNotFatal ==
    SoftPrepareReturned =>
        /\ outcome # "LoopbackSetupFailure"
        /\ outcome = SoftExpectedOutcome
        /\ cfg.device_index # None => detDevices = NotQueried

\* the Windows helper exited with 1 and prepare() returned successfully
C13_Witness ==
    /\ SoftPrepareReturned
    /\ plat = "windows"
    /\ scriptExit = Some(1)
    /\ cfg.device_index = None
    /\ outcome = "ok"

\* C14: when the effective mode is MICROPHONE or API, prepare() ends after
\* _ensure_device_presence on every platform: no helper script, no pactl, no
\* rollback action, no candidate detection, the defaults untouched.
C14_NoMutationForMicrophoneOrApi ==
    (lastCall = "prepare" /\ resolve_capture_mode(cfg, plat) \in {"MICROPHONE", "API"}) =>
        /\ mpc \in {"ensure", "idle"}
        /\ stackAtScript = None
        /\ scriptExit = None
        /\ capture_defaults = None
        /\ pactlFound = "none"
        /\ pactlCalls = 0
        /\ cleanup_actions = <<>>
        /\ detDevices = NotQueried
        /\ <<defaultSink, defaultSource>> = defaultsAtPrepare
        /\ mpc = "idle" => outcome = _ensure_device_presence(devices, cfg)

\* API mode on Linux with auto-setup enabled: prepare() returned successfully
C14_Witness ==
    /\ PrepareReturned
    /\ cfg.mode = "API"
    /\ plat = "linux"
    /\ cfg.auto_setup_loopback
    /\ environ[LoopbackFlag] = None
    /\ outcome = "ok"

----------------------------------------------------------------------------
\* Properties of the candidate classification and of the diagnostics

Reported == report.st = "ok"
Detected == detected \in {"yes", "no"}

DiagDevices == diagQuery.devs
DiagIdx     == 1..Len(DiagDevices)

\* the device at position idx is among the report's loopback candidates
Classified(idx) ==
    \E k \in 1..Len(report.loopback_candidates) :
        report.loopback_candidates[k].index = idx - 1

\* the keyword rule and the generic-name rule of Linux
LinuxNameRule(d) ==
    \/ Contains("monitor", Lower(d.name))
    \/ Contains("loopback", Lower(d.name))
    \/ Lower(d.name) \in {"pipewire", "default"} /\ d.max_input_channels >= 2

\* the Linux rules with the hint rule read as case-insensitive equality
LinuxRuleByEquality ==
    [d \in DiagDeviceKinds, h \in DiagSinkHints |->
        \/ LinuxNameRule(d)
        \/ IsSome(h) /\ Get(h) # "" /\ Lower(d.name) = Lower(Get(h))]

\* the Linux rules with the hint rule read as a substring test
LinuxRuleByContainment ==
    [d \in DiagDeviceKinds, h \in DiagSinkHints |->
        \/ LinuxNameRule(d)
        \/ IsSome(h) /\ Get(h) # "" /\ Contains(Lower(Get(h)), Lower(d.name))]

\* C15: on the same enumeration, platform and configuration,
\* _detect_loopback_candidate returns true if and only if
\* collect_audio_diagnostics reports at least one loopback candidate (and one
\* raises if and only if the other does).
C15_DetectAgreesWithCollect ==
    (report.st # "none" /\ detected # "none") =>
        /\ report.st = "raised" <=> detected = "raised"
        /\ Reported => (detected = "yes" <=> report.loopback_candidates # <<>>)

\* both ran on a list whose only candidate is one by the sink-name hint
C15_Witness ==
    /\ Reported
    /\ detected = "yes"
    /\ plat = "linux"
    /\ cfg.linux_loopback_sink = Some("Built-in")
    /\ DiagDevices = <<Device("USB Microphone", 1), Device("Built-in Audio Analog Stereo", 1)>>
    /\ Len(report.loopback_candidates) = 1

\* C16 as stated: on Linux an input-capable device is a candidate if and only
\* if its name contains "monitor" or "loopback", or equals the sink-name hint
\* case-insensitively, or is "pipewire" or "default" with at least 2 input
\* channels.
C16_HintByEquality ==
    plat = "linux" =>
        /\ Reported =>
               \A idx \in DiagIdx : DiagDevices[idx].max_input_channels > 0 =>
                   (Classified(idx) <=>
                        LinuxRuleByEquality[DiagDevices[idx], cfg.linux_loopback_sink])
        /\ Detected =>
               (detected = "yes" <=>
                    \E idx \in DiagIdx :
                        /\ DiagDevices[idx].max_input_channels > 0
                        /\ LinuxRuleByEquality[DiagDevices[idx], cfg.linux_loopback_sink])

\* C16: the same with the hint rule as a substring test: the lowercased name
\* contains the lowercased sink-name hint.
C16_HintByContainment ==
    plat = "linux" =>
        /\ Reported =>
               \A idx \in DiagIdx : DiagDevices[idx].max_input_channels > 0 =>
                   (Classified(idx) <=>
                        LinuxRuleByContainment[DiagDevices[idx], cfg.linux_loopback_sink])
        /\ Detected =>
               (detected = "yes" <=>
                    \E idx \in DiagIdx :
                        /\ DiagDevices[idx].max_input_channels > 0
                        /\ LinuxRuleByContainment[DiagDevices[idx], cfg.linux_loopback_sink])

\* a name that contains the hint as a proper substring, and one that equals
\* it up to case, are both candidates; the plain microphone is not
C16_Witness ==
    /\ plat = "linux"
    /\ Reported
    /\ detected = "yes"
    /\ cfg.linux_loopback_sink = Some("Built-in")
    /\ DiagDevices = <<Device("Built-in Audio Analog Stereo", 1), Device("built-in", 1)>>
    /\ Classified(1)
    /\ Classified(2)

GenericNames == {"pipewire", "default"}

\* the name contains the configured sink-name hint
HintMatches(d) ==
    /\ IsSome(cfg.linux_loopback_sink)
    /\ Get(cfg.linux_loopback_sink) # ""
    /\ Contains(Lower(Get(cfg.linux_loopback_sink)), Lower(d.name))

C18_CandidatesHaveInputs ==
    /\ Reported =>
           \A k \in 1..Len(report.loopback_candidates) :
               /\ report.loopback_candidates[k].inputs > 0
               /\ \E j \in 1..Len(report.input_devices) :
                      report.input_devices[j] = report.loopback_candidates[k]
    /\ detected = "yes" => \E idx \in DiagIdx : DiagDevices[idx].max_input_channels > 0
    /\ (Detected /\ \A idx \in DiagIdx : DiagDevices[idx].max_input_channels = 0)
           => detected = "no"

\* a monitor without input channels is the only device: no candidate
C18_Witness ==
    /\ plat = "linux"
    /\ Reported
    /\ detected = "no"
    /\ DiagDevices = <<Device("Loopback Monitor", 0)>>
    /\ report.loopback_candidates = <<>>
    /\ report.input_devices = <<>>

\* C19: the effective mode is LOOPBACK for AUTO on linux, windows and darwin,
\* MICROPHONE for AUTO on any other platform, and the configured mode itself
\* for MICROPHONE, LOOPBACK and API on every platform.
C19_ResolveCaptureMode ==
    Reported =>
        /\ (cfg.mode = "AUTO" /\ plat \in {"linux", "windows", "darwin"})
               => report.mode = "LOOPBACK"
        /\ (cfg.mode = "AUTO" /\ plat \notin {"linux", "windows", "darwin"})
               => report.mode = "MICROPHONE"
        /\ cfg.mode \in {"MICROPHONE", "LOOPBACK", "API"} => report.mode = cfg.mode

\* AUTO resolved on macOS
C19_Witness ==
    /\ Reported
    /\ cfg.mode = "AUTO"
    /\ plat = "darwin"
    /\ report.mode = "LOOPBACK"

\* a Linux report without candidate under the default configuration
DefaultLinuxNoCandidate ==
    /\ Reported
    /\ plat = "linux"
    /\ cfg.mode = "AUTO"
    /\ cfg.device_index = None
    /\ report.loopback_candidates = <<>>

NoCandidateListing ==
    \A i \in 1..Len(report.recommendations) :
        report.recommendations[i].kind # CandidateListing(<<>>).kind

\* C20 as stated: for a Linux device list without candidate and the default
\* configuration the issue list is exactly the no-candidate message, and no
\* recommendation lists candidate names.
C20_OnlyNoCandidateIssue ==
    DefaultLinuxNoCandidate =>
        /\ report.issues = <<NoCandidateIssue>>
        /\ NoCandidateListing

\* C20: the issue list ends with the no-candidate message and holds nothing
\* else but, when the list has no input-capable device, the no-input-device
\* message before it; no recommendation lists candidate names.
C20_NoCandidateIssueLast ==
    DefaultLinuxNoCandidate =>
        /\ report.issues = (IF report.input_devices = <<>> THEN <<NoInputIssue>> ELSE <<>>)
                              \o <<NoCandidateIssue>>
        /\ NoCandidateListing

\* one plain microphone: the no-candidate message alone
C20_Witness ==
    /\ DefaultLinuxNoCandidate
    /\ DiagDevices = <<Device("USB Microphone", 1)>>
    /\ report.issues = <<NoCandidateIssue>>
    /\ report.recommendations = <<SetIndexRecommendation>>

----------------------------------------------------------------------------
\* C21 (as stated): the report recommends pinning an explicit device index
\* exactly when no device index is configured, whatever the device list
InSeq(x, seq) == \E i \in 1..Len(seq) : seq[i] = x

HasInputDevice == \E idx \in DiagIdx : DiagDevices[idx].max_input_channels > 0

C21_AdvisedWheneverNoIndex ==
    Reported =>
        (InSeq(SetIndexRecommendation, report.recommendations)
            <=> cfg.device_index = None)

\* C21 (amended): the report recommends pinning an explicit device index
\* exactly when no device index is configured and the enumeration holds at
\* least one input-capable device
C21_AdvisedWhenNoIndexAndInputs ==
    Reported =>
        (InSeq(SetIndexRecommendation, report.recommendations)
            <=> (cfg.device_index = None /\ HasInputDevice))

C21_Witness ==
    /\ Reported
    /\ cfg.device_index = None
    /\ DiagDevices = <<Device("Loopback Monitor", 0)>>
    /\ report.issues[1] = NoInputIssue
    /\ ~InSeq(SetIndexRecommendation, report.recommendations)

----------------------------------------------------------------------------
\* C22: the report names a configured device exactly when the configured
\* index is in [0, deviceCount-1] of the enumeration collect_audio_diagnostics
\* made, and then it is the device at that index; the validation of prepare()
\* passes with a configured index only if the index is in range of, and
\* input-capable in, the enumeration that validation made
SummaryAt(devs, i) ==
    [index |-> i, name |-> devs[i + 1].name, inputs |-> devs[i + 1].max_input_channels]

C22_ConfiguredDeviceWithinBounds ==
    /\ Reported =>
          LET inRange == /\ IsSome(cfg.device_index)
                         /\ Get(cfg.device_index) \in 0..(Len(DiagDevices) - 1)
          IN  /\ IsSome(report.configured_device) <=> inRange
              /\ inRange => Get(report.configured_device) =
                                SummaryAt(DiagDevices, Get(cfg.device_index))
    /\ (outcome = "ok" /\ IsSome(cfg.device_index) /\ devices # NotQueried) =>
          /\ devices.st = "ok"
          /\ Get(cfg.device_index) \in 0..(Len(devices.devs) - 1)
          /\ devices.devs[Get(cfg.device_index) + 1].max_input_channels > 0

C22_Witness ==
    /\ cfg.device_index = Some(1)
    /\ Reported
    /\ Len(DiagDevices) = 2
    /\ report.configured_device = Some(SummaryAt(DiagDevices, 1))
    /\ DiagDevices[2].max_input_channels = 0
    /\ outcome = "ok"
    /\ Len(devices.devs) = 2

----------------------------------------------------------------------------
\* C23: the process of the easy-start command ends with a non-success status
\* whenever run_easy_start returned not-ready, and with success when it
\* returned ready
C23_ExitStatusReflectsReadiness ==
    cliExit.boundary = "easy_start" =>
        /\ esResult = "False" => cliExit.status # 0
        /\ esResult = "True" => cliExit.status = 0

----------------------------------------------------------------------------
\* C24: at each command-line boundary that runs diagnostics (--diagnose-audio,
\* easy-start, the standalone script), when diagnostics raised an environment
\* error a message has been printed and the status is non-success
DiagnosticsRaisedAtBoundary ==
    \/ /\ cliExit.boundary \in {"diagnose_audio", "diagnose_script"}
       /\ report.st = "raised"
    \/ /\ cliExit.boundary = "easy_start"
       /\ preflight[Len(preflight)] = <<"run_cli_diagnostics", FALSE>>

C24_EnvironmentErrorGivesFailureStatus ==
    DiagnosticsRaisedAtBoundary => (cliExit.printed /\ cliExit.status # 0)

----------------------------------------------------------------------------
\* C25: once the readiness check has failed, run_easy_start has returned
\* not-ready and has run no diagnostics, captured no defaults, snapshotted no
\* modules, restored no defaults, unloaded no module, enforced no physical
\* defaults, run no helper script and launched no pipeline
ReadinessFailed ==
    /\ preflight # <<>>
    /\ preflight[1] = <<"run_environment_check", FALSE>>

C25_NotReadyRunsNothing ==
    ReadinessFailed =>
        /\ EasyDone
        /\ esResult = "False"
        /\ Len(preflight) = 1
        /\ defaults_before_script = None
        /\ modules_before_script = None
        /\ steps = <<>>
        /\ unloaded = <<>>
        /\ scriptAnswer = "none"
        /\ startAnswer = "none"
        /\ rpc = "none"
        /\ taskState = "none"
        /\ environ = environAtCall
        /\ sysModules = modulesAtCall

C25_Witness ==
    /\ ReadinessFailed
    /\ EasyDone
    /\ plat = "linux"
    /\ interactive
    /\ IsSome(defaultSink)
    /\ LoadedAtCall(1)
    /\ esResult = "False"

----------------------------------------------------------------------------
\* C26 (as stated): on the non-interactive path, once readiness and
\* diagnostics have passed, run_easy_start restores the captured defaults
\* (when any were captured), enforces physical defaults, unloads no module,
\* runs no helper script, launches no pipeline, prompts for nothing and
\* returns ready
NonInteractivePassed ==
    /\ ~interactive
    /\ Len(preflight) = 2
    /\ preflight[2] = <<"run_cli_diagnostics", TRUE>>

RestoreIfCaptured ==
    IF IsSome(capturedAtStart) THEN <<"restore_defaults">> ELSE <<>>

NonInteractiveQuiet ==
    /\ unloaded = <<>>
    /\ sysModules = modulesAtCall
    /\ scriptAnswer = "none"
    /\ startAnswer = "none"
    /\ rpc = "none"
    /\ taskState = "none"
    /\ environ = environAtCall

C26_NonInteractiveEnforces ==
    NonInteractivePassed =>
        /\ NonInteractiveQuiet
        /\ EasyDone => /\ esResult = "True"
                       /\ steps = RestoreIfCaptured \o <<"ensure_physical">>

\* C26 (amended): the same, the physical defaults being enforced on Linux
\* only; on another platform no helper is called at all
C26_NonInteractiveEnforcesOnLinux ==
    NonInteractivePassed =>
        /\ NonInteractiveQuiet
        /\ EasyDone => /\ esResult = "True"
                       /\ steps = RestoreIfCaptured \o
                                  (IF plat = "linux" THEN <<"ensure_physical">> ELSE <<>>)
                       /\ plat # "linux" => steps = <<>>

C26_Witness ==
    /\ NonInteractivePassed
    /\ EasyDone
    /\ plat = "linux"
    /\ capturedAtStart = Some(<<Some(PhysicalSink), Some(PhysicalSource)>>)
    /\ steps = <<"restore_defaults", "ensure_physical">>
    /\ LoadedAtCall(1)
    /\ esResult = "True"

----------------------------------------------------------------------------
\* C27 (as stated): on the interactive path, when the user accepted the helper
\* script and it failed, run_easy_start has restored the defaults captured
\* before the script, unloaded exactly the modules created since the
\* before-snapshot, returned not-ready, and neither asked for nor launched the
\* pipeline
ScriptFailedPath == interactive /\ scriptAnswer = "yes" /\ retval = "False"

UnloadedIds == {unloaded[i] : i \in 1..Len(unloaded)}

\* the modules that were not loaded when run_easy_start was called and have
\* been loaded since (they are loaded still, or were unloaded)
CreatedSinceCall ==
    {id \in ModuleIds : /\ ~LoadedAtCall(id)
                        /\ (sysModules[id] # "none" \/ id \in UnloadedIds)}

ScriptFailureOutcome ==
    /\ esResult = "False"
    /\ steps = RestoreIfCaptured \o
               (IF plat = "linux" THEN <<"unload_modules">> ELSE <<>>)
    /\ startAnswer = "none"
    /\ rpc = "none"
    /\ taskState = "none"

ListingsComplete ==
    /\ snapBefore = _snapshot_linux_modules(TRUE, modulesAtCall)
    /\ \A id \in ModuleIds :
           /\ (sysModules[id] = "null") => (id \in modules_after.null)
           /\ (sysModules[id] = "loop") => (id \in modules_after.loop)

----------------------------------------------------------------------------
\* C28: on Linux, in every state in which the pipeline launched by
\* run_easy_start is running, AUDIO_LOOPBACK_ALREADY_SET is "1" and, when the
\* helper script was accepted and a default sink was captured before it ran,
\* HEADPHONE_SINK is that captured sink
PipelineRunning == epc = "pipeline"

SinkCapturedBeforeScript ==
    /\ scriptAnswer = "yes"
    /\ IsSome(capturedAtStart)
    /\ IsSome(Get(capturedAtStart)[1])

C28_HintsHoldWhilePipelineRuns ==
    (plat = "linux" /\ PipelineRunning) =>
        /\ environ[LoopbackFlag] = Some("1")
        /\ SinkCapturedBeforeScript =>
               environ[HeadphoneKey] = Get(capturedAtStart)[1]

C28_Witness ==
    /\ plat = "linux"
    /\ PipelineRunning
    /\ taskState = "running"
    /\ SinkCapturedBeforeScript
    /\ defaultSink = Some(VirtualSink)
    /\ environAtCall[HeadphoneKey] = Some("alsa_output.usb")
    /\ environAtCall[LoopbackFlag] = Some("0")
    /\ environ[HeadphoneKey] = Some(PhysicalSink)
    /\ environ[LoopbackFlag] = Some("1")

----------------------------------------------------------------------------
\* C29: in every state reachable by prepare() and cleanup() calls on one
\* manager, the rollback stack holds at most one defaults-restore action
RestoreCount ==
    Cardinality({i \in 1..Len(cleanup_actions) : IsRestore(cleanup_actions[i])})

C29_SingleRegistration == RestoreCount <= 1

\* a second prepare() in a row has registered its restore action
C29_Witness ==
    /\ lastCall = "prepare"
    /\ prevCall = "prepare"
    /\ mpc = "idle"
    /\ outcome = "ok"
    /\ IsSome(capture_defaults)
    /\ RestoreCount = 1
    /\ Len(cleanup_actions) = 1

----------------------------------------------------------------------------
\* C30 (as stated): _ensure_linux_physical_defaults changes a default only
\* when its current name matches the synthetic-device naming convention, and
\* then to the first listed device that is not synthetic (for the source: and
\* not a monitor); a default is never set to a synthetic or monitor device;
\* when no physical device is listed or pactl fails the default is unchanged
Synthetic(name) == Contains("codex_transcribe", name)
MonitorName(name) == Contains(".monitor", name)

FirstOf(names) == IF names = <<>> THEN None ELSE Some(names[1])

FirstPhysicalSink ==
    FirstOf(SelectSeq(physCall.sinks, LAMBDA n : ~Synthetic(n)))
FirstPhysicalSource ==
    FirstOf(SelectSeq(physCall.sources, LAMBDA n : ~Synthetic(n) /\ ~MonitorName(n)))

SinkBefore   == physCall.before[1]
SourceBefore == physCall.before[2]

SinkToMove   == IsSome(SinkBefore) /\ Synthetic(Get(SinkBefore))
SourceSynthetic == IsSome(SourceBefore) /\ Synthetic(Get(SourceBefore))
SourceToMove ==
    /\ IsSome(SourceBefore)
    /\ Synthetic(Get(SourceBefore)) \/ EndsWith(Get(SourceBefore), ".monitor")

\* the sink: moved exactly when it was synthetic, a physical sink is listed
\* and both pactl calls succeeded, and then to the first physical sink
SinkEnforced ==
    /\ defaultSink # SinkBefore => (SinkToMove /\ defaultSink = FirstPhysicalSink)
    /\ (SinkToMove /\ physCall.infoOk /\ IsSome(FirstPhysicalSink) /\ physCall.rs = "ok")
           => defaultSink = FirstPhysicalSink
    /\ (~physCall.infoOk \/ FirstPhysicalSink = None \/ physCall.rs # "ok")
           => defaultSink = SinkBefore
    /\ defaultSink # SinkBefore => ~Synthetic(Get(defaultSink))

SourceEnforced(toMove) ==
    /\ defaultSource # SourceBefore => (toMove /\ defaultSource = FirstPhysicalSource)
    /\ (toMove /\ physCall.infoOk /\ IsSome(FirstPhysicalSource) /\ physCall.rc = "ok")
           => defaultSource = FirstPhysicalSource
    /\ (~physCall.infoOk \/ FirstPhysicalSource = None \/ physCall.rc # "ok")
           => defaultSource = SourceBefore
    /\ defaultSource # SourceBefore =>
           (~Synthetic(Get(defaultSource)) /\ ~MonitorName(Get(defaultSource)))

C30_MovesOnlySyntheticDefaults ==
    physCall.st = "returned" => (SinkEnforced /\ SourceEnforced(SourceSynthetic))

\* C30 (amended): the same, the default source being changed also when its
\* current name ends with ".monitor"
C30_MovesSyntheticAndMonitorDefaults ==
    physCall.st = "returned" => (SinkEnforced /\ SourceEnforced(SourceToMove))

C30_Witness ==
    /\ physCall.st = "returned"
    /\ physCall.before = <<Some(VirtualSink), Some(OutputMonitor)>>
    /\ physCall.sinks = <<VirtualSink, UsbSink, PhysicalSink>>
    /\ physCall.sources = <<OutputMonitor, VirtualSource, UsbSource, PhysicalSource>>
    /\ defaultSink = Some(UsbSink)
    /\ defaultSource = Some(UsbSource)

----------------------------------------------------------------------------
\* C31: whenever the task running pipeline.run() has terminated (finished,
\* failed or cancelled), run_pipeline eventually returns or raises and the
\* rollback of run_easy_start eventually begins, with no signal assumed to
\* arrive
TaskTerminated == taskState \in {"finished", "failed", "cancelled"}

RollbackBegun == epc \in {"rollback", "done"}

C31_TerminatedTaskLeadsToRollback == TaskTerminated ~> RollbackBegun

----------------------------------------------------------------------------
\* C32: no registered rollback action is ever discarded unexecuted: in every
\* step of prepare() and cleanup() calls on one manager, an action leaves the
\* rollback stack only by being executed by cleanup(), so once a cleanup()
\* has returned every action registered before it has been executed
StackShrinks == Len(cleanup_actions') < Len(cleanup_actions)

TopExecuted ==
    /\ lastCall' = "cleanup"
    /\ Len(cleanup_actions') = Len(cleanup_actions) - 1
    /\ executed' = Append(executed, cleanup_actions[Len(cleanup_actions)])

C32_NoActionDiscarded == [][StackShrinks => TopExecuted]_vars

----------------------------------------------------------------------------
\* C33: on the interactive path where the user declines to launch the
\* pipeline, run_easy_start never set the process-context hints, and once it
\* has returned AUDIO_LOOPBACK_ALREADY_SET and HEADPHONE_SINK are each as they
\* were when run_easy_start was called
DeclinedLaunch == interactive /\ startAnswer = "no"

HintsNeverSet ==
    (DeclinedLaunch /\ ~Called("pop_hints")) => environ = environAtCall

HintsAsAtCall == (DeclinedLaunch /\ EasyDone) => environ = environAtCall

C33_DeclinedLaunchKeepsHints == HintsNeverSet /\ HintsAsAtCall

====
